---- MODULE Spec2Model ----
(***************************************************************************)
(* Workload execution of the uuid-benchmark PostgreSQL benchmarker:        *)
(* the sequential operations (InsertRecords, ReadRandomRecords, ...), the  *)
(* concurrent operations (InsertRecordsConcurrent, ...), RunMixedWorkload  *)
(* and its worker distribution (calculateWorkerDistribution).              *)
(***************************************************************************)
EXTENDS Integers, Sequences, FiniteSets, Bags, TLC

(***************************************************************************)
(* Bounds of the model.                                                    *)
(***************************************************************************)
\* largest operation count of a sequential or concurrent (non-mixed) run
MaxOps == 3
\* largest connection count of a run whose workers are executed
MaxConn == 2
\* largest batch size
MaxBatch == 2
\* largest total operation count of an executed mixed workload
MaxMixedOps == 2
\* latencies are drawn from 1..MaxLatency
MaxLatency == 2
\* largest connection count given to the worker distribution alone
MaxDistConn == 10
\* largest operation count given to the worker distribution alone
MaxDistOps == 5

Latencies == 1..MaxLatency
\* the operation counts of the documented 90/10 scenario, next to the small ones
DistOpsValues == (0..MaxDistOps) \cup {10, 90}

SeqOperations == {"InsertRecords", "ReadRandomRecords", "ReadRangeScans",
                  "UpdateRandomRecords", "UpdateBatchRecords"}
ConcOperations == {"InsertRecordsConcurrent", "ReadRandomRecordsConcurrent",
                   "UpdateRandomRecordsConcurrent"}
Kinds == <<"insert", "read", "update">>
KindSet == {"insert", "read", "update"}

VARIABLES
    config,        \* the arguments of the running operation
    pc,            \* position of the calling goroutine
    dist,          \* insertWorkers, readWorkers, updateWorkers
    pending,       \* workers the launch loops have still to start
    workers,       \* the started worker goroutines, in start order
    wg,            \* sync.WaitGroup counter
    mu,            \* sync.Mutex: 0 when free, else the index of the holder
    allLatencies,  \* the shared latency slice(s), per kind
    totalSuccess,  \* shared success counter
    totalErrors,   \* shared error counter
    seq,           \* loop state of a sequential operation
    result,        \* what the operation returned
    db             \* what the database has been asked to do so far

vars == <<config, pc, dist, pending, workers, wg, mu, allLatencies,
          totalSuccess, totalErrors, seq, result, db>>

Min(a, b) == IF a < b THEN a ELSE b
Max(a, b) == IF a > b THEN a ELSE b

RECURSIVE SumSeq(_)
SumSeq(s) == IF s = <<>> THEN 0 ELSE Head(s) + SumSeq(Tail(s))

RECURSIVE BagOfSeq(_)
BagOfSeq(s) == IF s = <<>> THEN EmptyBag ELSE SetToBag({Head(s)}) (+) BagOfSeq(Tail(s))

(***************************************************************************)
(* calculateWorkerDistribution (mixed.go)                                  *)
(***************************************************************************)
\* a faulty variant: rounds the proportional share up instead of down
ProportionalWorkersCeil(totalConnections, ops, totalOps) ==
    Max(0, (totalConnections * ops + totalOps - 1) \div totalOps)

\* max(0, int(float64(totalConnections)*float64(ops)/float64(totalOps)));
\* the products are far below 2^53, so the float64 quotient truncates to the
\* integer quotient
ProportionalWorkers(totalConnections, ops, totalOps) ==
    Max(0, (totalConnections * ops) \div totalOps)

\* if ops > 0 && workers == 0 { workers = 1 }
EnsureMinimum(ops, w) == IF ops > 0 /\ w = 0 THEN 1 ELSE w

\* a faulty variant: the surplus is taken from the insert workers whatever their count
AdjustSurplusFirst(totalConnections, d) ==
    LET total == d.insertWorkers + d.readWorkers + d.updateWorkers
    IN  IF total > totalConnections
        THEN [d EXCEPT !.insertWorkers = @ - (total - totalConnections)]
        ELSE d

\* the adjustment of a total above totalConnections
AdjustSurplus(totalConnections, d) ==
    LET total == d.insertWorkers + d.readWorkers + d.updateWorkers
    IN  IF total > totalConnections
        THEN IF d.insertWorkers >= d.readWorkers /\ d.insertWorkers >= d.updateWorkers
                /\ d.insertWorkers > 1
             THEN [d EXCEPT !.insertWorkers = @ - (total - totalConnections)]
             ELSE IF d.readWorkers >= d.updateWorkers /\ d.readWorkers > 1
             THEN [d EXCEPT !.readWorkers = @ - (total - totalConnections)]
             ELSE IF d.updateWorkers > 1
             THEN [d EXCEPT !.updateWorkers = @ - (total - totalConnections)]
             ELSE d
        ELSE d

NoWorkers == [insertWorkers |-> 0, readWorkers |-> 0, updateWorkers |-> 0]

\* the worker counts before the minimum is enforced
Proportional(totalConnections, insertOps, readOps, updateOps) ==
    LET totalOps == insertOps + readOps + updateOps
    IN  [insertWorkers |-> ProportionalWorkers(totalConnections, insertOps, totalOps),
         readWorkers   |-> ProportionalWorkers(totalConnections, readOps, totalOps),
         updateWorkers |-> ProportionalWorkers(totalConnections, updateOps, totalOps)]

\* the worker counts with the minimum enforced
WithMinimum(d, insertOps, readOps, updateOps) ==
    [insertWorkers |-> EnsureMinimum(insertOps, d.insertWorkers),
     readWorkers   |-> EnsureMinimum(readOps, d.readWorkers),
     updateWorkers |-> EnsureMinimum(updateOps, d.updateWorkers)]

calculateWorkerDistribution(totalConnections, insertOps, readOps, updateOps) ==
    IF insertOps + readOps + updateOps = 0
    THEN NoWorkers
    ELSE AdjustSurplus(totalConnections,
            WithMinimum(Proportional(totalConnections, insertOps, readOps, updateOps),
                        insertOps, readOps, updateOps))

(***************************************************************************)
(* The split of a kind's operations over its workers                       *)
(* (InsertRecordsConcurrent, ReadRandomRecordsConcurrent,                  *)
(* UpdateRandomRecordsConcurrent, RunMixedWorkload)                        *)
(***************************************************************************)
\* a faulty variant: the remainder is dropped
WorkerOpsNoRemainder(ops, workerCount, workerID) == ops \div workerCount

\* workerOps := ops / workers; if workerID < ops % workers { workerOps++ }
WorkerOps(ops, workerCount, workerID) ==
    (ops \div workerCount) + (IF workerID < ops % workerCount THEN 1 ELSE 0)

\* the goroutines one launch loop starts, in workerID order
LaunchLoop(kind, ops, workerCount) ==
    [n \in 1..workerCount |->
        [kind |-> kind, id |-> n - 1, ops |-> WorkerOps(ops, workerCount, n - 1)]]

\* if config.InsertOps > 0 && insertWorkers > 0 { ... }
MixedLaunchGuard(ops, workerCount) == ops > 0 /\ workerCount > 0

MixedLaunch(kind, ops, workerCount) ==
    IF MixedLaunchGuard(ops, workerCount)
    THEN IF workerCount > 0 THEN LaunchLoop(kind, ops, workerCount) ELSE <<>>
    ELSE <<>>

\* whether evaluating the launch divides by zero
LaunchPanics(c, d) ==
    IF c.op \in ConcOperations
    THEN c.connections = 0
    ELSE \/ MixedLaunchGuard(c.InsertOps, d.insertWorkers) /\ d.insertWorkers = 0
         \/ MixedLaunchGuard(c.ReadOps, d.readWorkers) /\ d.readWorkers = 0
         \/ MixedLaunchGuard(c.UpdateOps, d.updateWorkers) /\ d.updateWorkers = 0

KindOf(op) ==
    CASE op \in {"InsertRecords", "InsertRecordsConcurrent"} -> "insert"
      [] op \in {"ReadRandomRecords", "ReadRangeScans", "ReadRandomRecordsConcurrent"} -> "read"
      [] OTHER -> "update"

\* every goroutine the operation starts, in start order
LaunchPlan(c, d) ==
    IF c.op \in ConcOperations
    THEN LaunchLoop(KindOf(c.op), c.numOps, c.connections)
    ELSE MixedLaunch("insert", c.InsertOps, d.insertWorkers)
         \o MixedLaunch("read", c.ReadOps, d.readWorkers)
         \o MixedLaunch("update", c.UpdateOps, d.updateWorkers)

(***************************************************************************)
(* CalculatePercentiles (package benchmark)                                *)
(***************************************************************************)
SortAscending(latencies) == SortSeq(latencies, LAMBDA a, b : a < b)

\* a faulty variant: the one-based nearest rank ceil(n * p / 100), less one
CalculatePercentilesNearestRank(latencies) ==
    IF Len(latencies) = 0
    THEN <<0, 0, 0>>
    ELSE LET sorted == SortSeq(latencies, LAMBDA a, b : a < b)
             n == Len(latencies)
         IN  <<sorted[(n * 50 + 99) \div 100],
               sorted[(n * 95 + 99) \div 100],
               sorted[(n * 99 + 99) \div 100]>>

\* a faulty variant: the list is indexed as it came, unsorted
CalculatePercentilesUnsorted(latencies) ==
    IF Len(latencies) = 0
    THEN <<0, 0, 0>>
    ELSE LET n == Len(latencies)
         IN  <<latencies[(n * 50) \div 100 + 1],
               latencies[(n * 95) \div 100 + 1],
               latencies[(n * 99) \div 100 + 1]>>

CalculatePercentiles(latencies) ==
    IF Len(latencies) = 0
    THEN <<0, 0, 0>>
    ELSE LET sorted == SortAscending(latencies)
             n == Len(latencies)
         IN  <<sorted[(n * 50) \div 100 + 1],
               sorted[(n * 95) \div 100 + 1],
               sorted[(n * 99) \div 100 + 1]>>

(***************************************************************************)
(* Initial states                                                          *)
(***************************************************************************)
Config(op, numOps, connections, batchSize, insertOps, readOps, updateOps) ==
    [op |-> op, numOps |-> numOps, connections |-> connections,
     batchSize |-> batchSize, InsertOps |-> insertOps, ReadOps |-> readOps,
     UpdateOps |-> updateOps]

\* A float64 quotient float64(ops) / duration.Seconds(), kept as the fraction it
\* is the value of: with a zero denominator Go's float64 division yields +Inf for
\* a positive numerator and NaN for a zero one, it does not panic.
Throughput(ops, duration) == [num |-> ops, den |-> duration]

\* the zero value of a float64 variable
ZeroThroughput == [num |-> 0, den |-> 1]

IsInf(t) == t.den = 0 /\ t.num > 0
IsNaN(t) == t.den = 0 /\ t.num = 0
IsZero(t) == t.den # 0 /\ t.num = 0

\* if config.InsertOps > 0 && len(allLatencies.InsertLatencies) > 0 { sum the
\* latencies; insertThroughput = float64(config.InsertOps) / sum.Seconds() }
KindThroughput(ops, latencies) ==
    IF ops > 0 /\ Len(latencies) > 0
    THEN Throughput(ops, SumSeq(latencies))
    ELSE ZeroThroughput

NoResult == [status |-> "none", SuccessCount |-> 0, ErrorCount |-> 0,
             p50 |-> 0, p95 |-> 0, p99 |-> 0,
             InsertThroughput |-> ZeroThroughput,
             ReadThroughput |-> ZeroThroughput,
             UpdateThroughput |-> ZeroThroughput]

EmptyLatencies == [k \in KindSet |-> <<>>]

\* the state a call starts in, whatever its arguments
Fresh ==
    /\ dist = NoWorkers
    /\ pending = <<>>
    /\ workers = <<>>
    /\ wg = 0
    /\ mu = 0
    /\ allLatencies = EmptyLatencies
    /\ totalSuccess = 0
    /\ totalErrors = 0
    /\ seq = [i |-> 0, latencies |-> <<>>, successCount |-> 0, errorCount |-> 0]
    /\ result = NoResult
    /\ db = [calls |-> 0, failed |-> 0, attempted |-> 0]

SeqConfigs ==
    {Config(op, n, 1, b, 0, 0, 0) :
        op \in SeqOperations, n \in 0..MaxOps, b \in 1..MaxBatch}

ConcConfigs ==
    {Config("InsertRecordsConcurrent", n, c, b, 0, 0, 0) :
        n \in 0..MaxOps, c \in 0..MaxConn, b \in 1..MaxBatch}
    \cup
    {Config(op, n, c, 1, 0, 0, 0) :
        op \in ConcOperations \ {"InsertRecordsConcurrent"},
        n \in 0..MaxOps, c \in 0..MaxConn}

\* the per-kind counts of a mixed workload of at most MaxMixedOps operations
MixedOpCounts ==
    {t \in (0..MaxMixedOps) \X (0..MaxMixedOps) \X (0..MaxMixedOps) :
        t[1] + t[2] + t[3] <= MaxMixedOps}

MixedConfigs ==
    {Config("RunMixedWorkload", t[1] + t[2] + t[3], c, b, t[1], t[2], t[3]) :
        t \in MixedOpCounts, c \in 0..MaxConn, b \in 1..MaxBatch}

StartPc(op) ==
    IF op \in SeqOperations THEN "seqloop"
    ELSE IF op \in ConcOperations THEN "plan"
    ELSE "setup"

Init ==
    /\ config \in SeqConfigs \cup ConcConfigs \cup MixedConfigs
    /\ pc = StartPc(config.op)
    /\ Fresh

\* the calls whose worker distribution and launch plan are computed on their own
DistConfigs ==
    {Config("RunMixedWorkload", i + (r + u), c, 1, i, r, u) :
        i \in DistOpsValues, r \in DistOpsValues, u \in DistOpsValues,
        c \in 1..MaxDistConn}
    \cup
    {Config(op, n, c, 1, 0, 0, 0) :
        op \in ConcOperations, n \in DistOpsValues, c \in 1..MaxDistConn}

DistInit ==
    /\ config \in DistConfigs
    /\ pc = IF config.op = "RunMixedWorkload" THEN "distribute" ELSE "plan"
    /\ Fresh

(***************************************************************************)
(* RunMixedWorkload up to the launch; the launch of the concurrent         *)
(* operations                                                              *)
(***************************************************************************)
ErrorResult == [NoResult EXCEPT !.status = "error"]
PanicResult == [NoResult EXCEPT !.status = "panic"]

\* phases 1 and 2 and the start LSN: the initial dataset, ResetStats, getCurrentLSN
Setup(ok) ==
    /\ pc = "setup"
    /\ pc' = IF ok THEN "distribute" ELSE "returned"
    /\ result' = IF ok THEN result ELSE ErrorResult
    /\ UNCHANGED <<config, dist, pending, workers, wg, mu, allLatencies,
                   totalSuccess, totalErrors, seq, db>>

\* calculateWorkerDistribution: the early return and the proportional counts
CalcProportional ==
    /\ pc = "distribute"
    /\ IF config.InsertOps + config.ReadOps + config.UpdateOps = 0
       THEN /\ dist' = NoWorkers
            /\ pc' = "plan"
       ELSE /\ dist' = Proportional(config.connections, config.InsertOps,
                                    config.ReadOps, config.UpdateOps)
            /\ pc' = "minimum"
    /\ UNCHANGED <<config, pending, workers, wg, mu, allLatencies,
                   totalSuccess, totalErrors, seq, result, db>>

\* calculateWorkerDistribution: at least one worker for a kind that has ops
CalcMinimum ==
    /\ pc = "minimum"
    /\ dist' = WithMinimum(dist, config.InsertOps, config.ReadOps, config.UpdateOps)
    /\ pc' = "adjust"
    /\ UNCHANGED <<config, pending, workers, wg, mu, allLatencies,
                   totalSuccess, totalErrors, seq, result, db>>

\* calculateWorkerDistribution: the adjustment and the return
CalcAdjust ==
    /\ pc = "adjust"
    /\ dist' = AdjustSurplus(config.connections, dist)
    /\ pc' = "plan"
    /\ UNCHANGED <<config, pending, workers, wg, mu, allLatencies,
                   totalSuccess, totalErrors, seq, result, db>>

\* the per-worker counts of the launch loops; an integer division by zero panics
PlanLaunch ==
    /\ pc = "plan"
    /\ IF LaunchPanics(config, dist)
       THEN /\ pc' = "panicked"
            /\ result' = PanicResult
            /\ pending' = pending
       ELSE /\ pending' = LaunchPlan(config, dist)
            /\ pc' = IF pending' = <<>> THEN "wait" ELSE "spawn"
            /\ result' = result
    /\ UNCHANGED <<config, dist, workers, wg, mu, allLatencies,
                   totalSuccess, totalErrors, seq, db>>

DistNext == CalcProportional \/ CalcMinimum \/ CalcAdjust \/ PlanLaunch

DistSpec == DistInit /\ [][DistNext]_vars

(***************************************************************************)
(* The launch loops, the worker goroutines and the join                    *)
(***************************************************************************)
IsMixed == config.op = "RunMixedWorkload"

Worker(e) ==
    [kind |-> e.kind, id |-> e.id, ops |-> e.ops, i |-> 0, pc |-> "loop",
     latencies |-> <<>>, successCount |-> 0, errorCount |-> 0]

\* wg.Add(1); go func(id, ops) {...}(workerID, workerOps)
Spawn ==
    /\ pc = "spawn"
    /\ pending # <<>>
    /\ wg' = wg + 1
    /\ workers' = Append(workers, Worker(Head(pending)))
    /\ pending' = Tail(pending)
    /\ pc' = IF pending' = <<>> THEN "wait" ELSE "spawn"
    /\ UNCHANGED <<config, dist, mu, allLatencies, totalSuccess, totalErrors,
                   seq, result, db>>

\* insert workers run in batches unless batchSize == 1
Batched(kind) == kind = "insert" /\ config.batchSize # 1

\* the records one call of a worker covers: actualBatchSize, or 1
CallSize(w) ==
    IF Batched(w.kind) THEN Min(config.batchSize, w.ops - w.i) ELSE 1

\* the loop increment: i += batchSize, or i++
LoopStep(kind) == IF Batched(kind) THEN config.batchSize ELSE 1

\* start := time.Now(); the operation is called
OpCall(n) ==
    /\ n \in 1..Len(workers)
    /\ workers[n].pc = "loop"
    /\ workers[n].i < workers[n].ops
    /\ workers' = [workers EXCEPT ![n].pc = "call"]
    /\ UNCHANGED <<config, pc, dist, pending, wg, mu, allLatencies,
                   totalSuccess, totalErrors, seq, result, db>>

\* latencies = append(latencies, time.Since(start)), before err is looked at
RecordLatency(latencies, lat, ok) == Append(latencies, lat)

\* runInsertWorker, runReadWorker and runUpdateWorker count successes and
\* errors; the mixed workers discard the error (_ = p.execute...)
CountsOutcomes(mixed) == ~mixed

\* the database's account of a call that returned
DbAfter(size, ok) ==
    [calls |-> db.calls + 1,
     failed |-> db.failed + (IF ok THEN 0 ELSE 1),
     attempted |-> db.attempted + size]

\* the operation returns, with a latency and with or without an error
OpReturn(n, lat, ok) ==
    /\ n \in 1..Len(workers)
    /\ workers[n].pc = "call"
    /\ LET w == workers[n]
           size == CallSize(w)
           counted == CountsOutcomes(IsMixed)
       IN  /\ workers' = [workers EXCEPT ![n] =
                  [w EXCEPT !.pc = "loop",
                            !.i = w.i + LoopStep(w.kind),
                            !.latencies = RecordLatency(w.latencies, lat, ok),
                            !.successCount = @ + (IF counted /\ ok THEN size ELSE 0),
                            !.errorCount = @ + (IF counted /\ ~ok THEN size ELSE 0)]]
           /\ db' = DbAfter(size, ok)
    /\ UNCHANGED <<config, pc, dist, pending, wg, mu, allLatencies,
                   totalSuccess, totalErrors, seq, result>>

\* a faulty variant: the lock is taken whether or not it is held
LockWithoutMutex(n) ==
    /\ n \in 1..Len(workers)
    /\ workers[n].pc = "loop"
    /\ workers[n].i >= workers[n].ops
    /\ mu' = n
    /\ workers' = [workers EXCEPT ![n].pc = "locked"]
    /\ UNCHANGED <<config, pc, dist, pending, wg, allLatencies,
                   totalSuccess, totalErrors, seq, result, db>>

\* the loop is over and the worker has returned its lists: mu.Lock()
Lock(n) ==
    /\ n \in 1..Len(workers)
    /\ workers[n].pc = "loop"
    /\ workers[n].i >= workers[n].ops
    /\ mu = 0
    /\ mu' = n
    /\ workers' = [workers EXCEPT ![n].pc = "locked"]
    /\ UNCHANGED <<config, pc, dist, pending, wg, allLatencies,
                   totalSuccess, totalErrors, seq, result, db>>

\* a faulty variant: the shared slice is overwritten
MergeLatenciesOverwrite(shared, local) == local

\* allLatencies = append(allLatencies, latencies...)
MergeLatencies(shared, local) == shared \o local

\* the critical section: the append and the two counters
Merge(n) ==
    /\ n \in 1..Len(workers)
    /\ workers[n].pc = "locked"
    /\ LET w == workers[n]
       IN  /\ allLatencies' = [allLatencies EXCEPT
                  ![w.kind] = MergeLatencies(@, w.latencies)]
           /\ totalSuccess' = totalSuccess + w.successCount
           /\ totalErrors' = totalErrors + w.errorCount
    /\ workers' = [workers EXCEPT ![n].pc = "merged"]
    /\ UNCHANGED <<config, pc, dist, pending, wg, mu, seq, result, db>>

\* mu.Unlock()
Unlock(n) ==
    /\ n \in 1..Len(workers)
    /\ workers[n].pc = "merged"
    /\ mu' = 0
    /\ workers' = [workers EXCEPT ![n].pc = "exit"]
    /\ UNCHANGED <<config, pc, dist, pending, wg, allLatencies,
                   totalSuccess, totalErrors, seq, result, db>>

\* the deferred wg.Done()
Done(n) ==
    /\ n \in 1..Len(workers)
    /\ workers[n].pc = "exit"
    /\ wg' = wg - 1
    /\ workers' = [workers EXCEPT ![n].pc = "done"]
    /\ UNCHANGED <<config, pc, dist, pending, mu, allLatencies,
                   totalSuccess, totalErrors, seq, result, db>>

\* a faulty variant: the wait is satisfied while one worker is still running
WaitReadyEarly(counter) == counter <= 1

\* wg.Wait() returns when the counter is zero
WaitReady(counter) == counter = 0

\* wg.Wait() returns
WaitReturn ==
    /\ pc = "wait"
    /\ WaitReady(wg)
    /\ pc' = "joined"
    /\ UNCHANGED <<config, dist, pending, workers, wg, mu, allLatencies,
                   totalSuccess, totalErrors, seq, result, db>>

\* the result of a concurrent operation, from the shared slice and counters
ConcurrentResult(latencies, success, errors) ==
    LET p == CalculatePercentiles(latencies)
    IN  [NoResult EXCEPT !.status = "ok",
                         !.SuccessCount = success, !.ErrorCount = errors,
                         !.p50 = p[1], !.p95 = p[2], !.p99 = p[3]]

\* the result of a mixed workload: it carries neither counters nor percentiles,
\* and a throughput per kind from the summed latencies of the kind
MixedResult ==
    [NoResult EXCEPT
        !.status = "ok",
        !.InsertThroughput = KindThroughput(config.InsertOps, allLatencies["insert"]),
        !.ReadThroughput = KindThroughput(config.ReadOps, allLatencies["read"]),
        !.UpdateThroughput = KindThroughput(config.UpdateOps, allLatencies["update"])]

\* after the join: the shared state is read and the result is built; for the
\* mixed workload the end LSN and the metrics are measured first and may fail
Finish(ok) ==
    /\ pc = "joined"
    /\ pc' = "returned"
    /\ IF IsMixed
       THEN /\ result' = IF ok THEN MixedResult ELSE ErrorResult
            /\ allLatencies' = allLatencies
       ELSE /\ ok
            /\ result' = ConcurrentResult(allLatencies[KindOf(config.op)],
                                          totalSuccess, totalErrors)
            /\ allLatencies' = [allLatencies EXCEPT
                   ![KindOf(config.op)] = SortAscending(@)]
    /\ UNCHANGED <<config, dist, pending, workers, wg, mu,
                   totalSuccess, totalErrors, seq, db>>

(***************************************************************************)
(* The sequential operations: InsertRecords, ReadRandomRecords,            *)
(* ReadRangeScans, UpdateRandomRecords, UpdateBatchRecords                 *)
(***************************************************************************)
\* a faulty variant: every sequential operation stops at an error
ReturnsErrorAlways(op) == TRUE

\* InsertRecords, ReadRandomRecords and ReadRangeScans return the error of a
\* failed call; the update operations count it and go on
ReturnsError(op) == op \in {"InsertRecords", "ReadRandomRecords", "ReadRangeScans"}

\* UpdateRandomRecords and UpdateBatchRecords keep success and error counters
CountsError(op) == op \in {"UpdateRandomRecords", "UpdateBatchRecords"}

\* InsertRecords times the whole run only
RecordsLatencies(op) == op # "InsertRecords"

\* InsertRecords batches unless batchSize == 1; UpdateBatchRecords always
SeqBatched(op) ==
    \/ op = "InsertRecords" /\ config.batchSize # 1
    \/ op = "UpdateBatchRecords"

\* batchEnd - i, or 1
SeqCallSize ==
    IF SeqBatched(config.op)
    THEN Min(seq.i + config.batchSize, config.numOps) - seq.i
    ELSE 1

SeqLoopStep == IF SeqBatched(config.op) THEN config.batchSize ELSE 1

\* the loop condition holds: the next operation is called
SeqCall ==
    /\ pc = "seqloop"
    /\ seq.i < config.numOps
    /\ pc' = "seqcall"
    /\ UNCHANGED <<config, dist, pending, workers, wg, mu, allLatencies,
                   totalSuccess, totalErrors, seq, result, db>>

\* the operation returns, with a latency and with or without an error
SeqReturn(lat, ok) ==
    /\ pc = "seqcall"
    /\ db' = DbAfter(SeqCallSize, ok)
    /\ LET lats == IF RecordsLatencies(config.op)
                   THEN RecordLatency(seq.latencies, lat, ok)
                   ELSE seq.latencies
       IN  IF ~ok /\ ReturnsError(config.op)
           THEN /\ seq' = [seq EXCEPT !.latencies = lats]
                /\ result' = ErrorResult
                /\ pc' = "returned"
           ELSE /\ seq' = [seq EXCEPT
                       !.latencies = lats,
                       !.i = @ + SeqLoopStep,
                       !.successCount = @ + (IF CountsError(config.op) /\ ok
                                             THEN SeqCallSize ELSE 0),
                       !.errorCount = @ + (IF CountsError(config.op) /\ ~ok
                                           THEN SeqCallSize ELSE 0)]
                /\ result' = result
                /\ pc' = "seqloop"
    /\ UNCHANGED <<config, dist, pending, workers, wg, mu, allLatencies,
                   totalSuccess, totalErrors>>

\* the loop is over: the result is built and returned without an error
SeqFinish ==
    /\ pc = "seqloop"
    /\ seq.i >= config.numOps
    /\ result' = ConcurrentResult(seq.latencies, seq.successCount, seq.errorCount)
    /\ seq' = [seq EXCEPT !.latencies = SortAscending(@)]
    /\ pc' = "returned"
    /\ UNCHANGED <<config, dist, pending, workers, wg, mu, allLatencies,
                   totalSuccess, totalErrors, db>>

(***************************************************************************)
(* The specifications                                                      *)
(***************************************************************************)
WorkerIds == 1..(3 * (MaxConn + 1))

WorkerStep(n) ==
    \/ \E lat \in Latencies, ok \in BOOLEAN : OpReturn(n, lat, ok)
    \/ OpCall(n) \/ Lock(n) \/ Merge(n) \/ Unlock(n) \/ Done(n)

Next ==
    \/ \E ok \in BOOLEAN : Setup(ok)
    \/ CalcProportional \/ CalcMinimum \/ CalcAdjust \/ PlanLaunch
    \/ Spawn
    \/ \E n \in WorkerIds : WorkerStep(n)
    \/ WaitReturn
    \/ \E ok \in BOOLEAN : Finish(ok)
    \/ SeqCall
    \/ \E lat \in Latencies, ok \in BOOLEAN : SeqReturn(lat, ok)
    \/ SeqFinish

Spec == Init /\ [][Next]_vars

\* The concurrent runs alone, for their termination. No step of a run reads a
\* latency's value before the join, so every call takes the same time here.
LiveInit == Init /\ ~(config.op \in SeqOperations)

LiveWorkerStep(n) ==
    \/ \E ok \in BOOLEAN : OpReturn(n, MaxLatency, ok)
    \/ OpCall(n) \/ Lock(n) \/ Merge(n) \/ Unlock(n) \/ Done(n)

LiveNext ==
    \/ \E ok \in BOOLEAN : Setup(ok)
    \/ CalcProportional \/ CalcMinimum \/ CalcAdjust \/ PlanLaunch
    \/ Spawn
    \/ \E n \in WorkerIds : LiveWorkerStep(n)
    \/ WaitReturn
    \/ \E ok \in BOOLEAN : Finish(ok)

\* the goroutine scheduler runs every runnable goroutine, and every operation
\* call is assumed to return
FairSpec ==
    /\ LiveInit
    /\ [][LiveNext]_vars
    /\ WF_vars(LiveNext)
    /\ \A n \in WorkerIds : WF_vars(LiveWorkerStep(n))

(***************************************************************************)
(* Properties of the worker distribution and of the split                  *)
(***************************************************************************)
\* the operations of a kind the call was asked to run
KindOps(k) ==
    IF IsMixed
    THEN CASE k = "insert" -> config.InsertOps
           [] k = "read"   -> config.ReadOps
           [] OTHER        -> config.UpdateOps
    ELSE IF k = KindOf(config.op) THEN config.numOps ELSE 0

\* the worker count of a kind in a distribution
KindWorkers(d, k) ==
    CASE k = "insert" -> d.insertWorkers
      [] k = "read"   -> d.readWorkers
      [] OTHER        -> d.updateWorkers

RequestedOps == config.InsertOps + config.ReadOps + config.UpdateOps
TotalWorkers(d) == d.insertWorkers + d.readWorkers + d.updateWorkers

\* the launch plan of one kind, in workerID order
PlanOf(k) == SelectSeq(pending, LAMBDA e : e.kind = k)
OpsOf(ws) == [n \in 1..Len(ws) |-> ws[n].ops]
Planned == pc \in {"spawn", "wait"} /\ workers = <<>>

\* C2: once the launch plan of a call with at least one worker per launched kind
\* is computed, the per-worker counts of every kind sum to the kind's operation
\* count, worker i has id i, no worker has more operations than a worker with a
\* smaller id, and two workers of a kind differ by at most one operation; so
\* worker i gets floor(ops/workerCount), plus one iff i < ops mod workerCount.
C2_SplitExact ==
    Planned =>
        \A k \in KindSet :
            LET ws == PlanOf(k)
            IN  /\ SumSeq(OpsOf(ws)) = KindOps(k)
                /\ \A a \in 1..Len(ws) :
                      /\ ws[a].id = a - 1
                      /\ ws[a].ops * Len(ws) <= KindOps(k) + (Len(ws) - 1)
                      /\ (ws[a].ops + 1) * Len(ws) > KindOps(k)
                      /\ \A b \in a..Len(ws) :
                            /\ ws[a].ops >= ws[b].ops
                            /\ ws[a].ops - ws[b].ops <= 1

\* a kind is split over several workers with a remainder: some get one more
C2_Witness ==
    /\ Planned
    /\ \E k \in KindSet :
          LET ws == PlanOf(k)
          IN  /\ Len(ws) >= 3
              /\ ws[1].ops = ws[Len(ws)].ops + 1
              /\ ws[Len(ws)].ops >= 1

\* C3: the worker counts calculateWorkerDistribution returns for a budget of at
\* least one connection sum to at most totalConnections, and RunMixedWorkload
\* plans no more goroutines than that.
C3_WithinBudget ==
    (IsMixed /\ config.connections >= 1 /\ pc \in {"plan", "spawn", "wait"}) =>
        /\ TotalWorkers(dist) <= config.connections
        /\ Len(pending) <= config.connections

\* every active kind's proportional share is at least one worker
NoKindForced ==
    \A k \in KindSet :
        KindOps(k) > 0 => config.connections * KindOps(k) >= RequestedOps

\* C4: when no active kind had to be forced up to the one-worker minimum, the
\* returned worker counts sum to exactly totalConnections.
C4_ExactWhenUnforced ==
    (IsMixed /\ config.connections >= 1 /\ RequestedOps > 0 /\ NoKindForced
        /\ pc = "plan") =>
        TotalWorkers(dist) = config.connections

\* C5 (state part): the returned distribution gives every kind with ops > 0 at
\* least one worker and every kind without ops none; a workload without any
\* operation gets (0, 0, 0), plans no goroutine and does not panic.
C5_Returned ==
    /\ (IsMixed /\ pc \in {"plan", "spawn", "wait", "panicked"}) =>
          \A k \in KindSet :
              /\ KindOps(k) > 0 => KindWorkers(dist, k) >= 1
              /\ KindOps(k) = 0 => KindWorkers(dist, k) = 0
    /\ (IsMixed /\ RequestedOps = 0 /\ pc \notin {"setup", "distribute"}) =>
          /\ dist = NoWorkers
          /\ pending = <<>>
          /\ workers = <<>>
          /\ pc # "panicked"

\* C5 (step part): the adjustment lowers the count of at most one kind, and only
\* of a kind that has the largest count and more than one worker.
C5_AdjustStep ==
    (pc = "adjust" /\ pc' = "plan") =>
        \A k \in KindSet :
            KindWorkers(dist', k) # KindWorkers(dist, k) =>
                /\ KindWorkers(dist', k) < KindWorkers(dist, k)
                /\ KindWorkers(dist, k) > 1
                /\ \A j \in KindSet : KindWorkers(dist, j) <= KindWorkers(dist, k)
                /\ \A j \in KindSet \ {k} : KindWorkers(dist', j) = KindWorkers(dist, j)

\* C5: the final distribution keeps the one-worker minimum of every active
\* kind, gives inactive kinds no worker, takes surplus only from a largest kind
\* with more than one worker, and an empty workload starts no worker.
C5_MinimumKept == []C5_Returned /\ [][C5_AdjustStep]_vars

\* the adjustment has removed a surplus
C5_Witness ==
    /\ IsMixed
    /\ pc = "plan"
    /\ RequestedOps > 0
    /\ TotalWorkers(dist) = config.connections
    /\ \E k \in KindSet :
          /\ KindOps(k) > 0
          /\ config.connections * KindOps(k) < RequestedOps
          /\ KindWorkers(dist, k) = 1
    /\ \E k \in KindSet :
          (KindWorkers(dist, k) + 1) * RequestedOps <= config.connections * KindOps(k)

\* C6: before the adjustment every kind with ops > 0 has floor(totalConnections
\* * ops / totalOps) workers, or 1 when that floor is 0; 10 connections with 90
\* inserts and 10 reads return (9, 1, 0).
C6_FloorOrOne ==
    /\ (IsMixed /\ pc = "adjust") =>
          \A k \in KindSet :
              LET w == KindWorkers(dist, k)
                  share == config.connections * KindOps(k)
              IN  KindOps(k) > 0 =>
                      IF share < RequestedOps
                      THEN w = 1
                      ELSE w * RequestedOps <= share /\ share < (w + 1) * RequestedOps
    /\ (IsMixed /\ pc = "plan" /\ config.connections = 10 /\ config.InsertOps = 90
            /\ config.ReadOps = 10 /\ config.UpdateOps = 0) =>
          dist = [insertWorkers |-> 9, readWorkers |-> 1, updateWorkers |-> 0]

\* the documented scenario has been distributed
C6_Witness ==
    /\ IsMixed
    /\ pc = "plan"
    /\ config.connections = 10
    /\ config.InsertOps = 90
    /\ config.ReadOps = 10
    /\ config.UpdateOps = 0
    /\ dist = [insertWorkers |-> 9, readWorkers |-> 1, updateWorkers |-> 0]

(***************************************************************************)
(* Properties of the runs                                                  *)
(***************************************************************************)
RECURSIVE WorkersBag(_, _)
\* the latencies of kind k the workers hold locally, as a multiset
WorkersBag(ws, k) ==
    IF ws = <<>>
    THEN EmptyBag
    ELSE (IF Head(ws).kind = k THEN BagOfSeq(Head(ws).latencies) ELSE EmptyBag)
         (+) WorkersBag(Tail(ws), k)

RECURSIVE WorkersSum(_, _)
\* the sum of a counter field over the workers
WorkersSum(ws, field) ==
    IF ws = <<>> THEN 0 ELSE Head(ws)[field] + WorkersSum(Tail(ws), field)

Joined == pc \in {"joined", "returned"}
IsConcurrent == config.op \in ConcOperations

\* C1: once wg.Wait has returned, every shared latency slice holds exactly the
\* multiset union of the local lists of the workers of its kind; in
\* InsertRecordsConcurrent, ReadRandomRecordsConcurrent and
\* UpdateRandomRecordsConcurrent totalSuccess + totalErrors is the requested
\* count (in records, also in batch mode) and there is one latency per call.
C1_MergeComplete ==
    (Joined /\ ~(config.op \in SeqOperations)) =>
        /\ \A k \in KindSet :
              BagOfSeq(allLatencies[k]) = WorkersBag(workers, k)
        /\ IsConcurrent =>
              /\ totalSuccess + totalErrors = config.numOps
              /\ totalSuccess = WorkersSum(workers, "successCount")
              /\ totalErrors = WorkersSum(workers, "errorCount")
              /\ Len(allLatencies[KindOf(config.op)]) = db.calls
              /\ config.batchSize = 1 => db.calls = config.numOps

\* a batched concurrent insert of two workers has been joined: the second worker
\* merged first, a batch of two records succeeded and a batch of one failed
C1_Witness ==
    /\ pc = "joined"
    /\ config.op = "InsertRecordsConcurrent"
    /\ config.batchSize = 2
    /\ Len(workers) = 2
    /\ config.numOps = 3
    /\ workers[1].latencies = <<1>>
    /\ workers[2].latencies = <<2>>
    /\ allLatencies["insert"] = <<2, 1>>
    /\ totalSuccess = 2
    /\ totalErrors = 1

\* C7: in every concurrent worker loop, the mixed ones included, each call that
\* has returned has recorded one latency and has been counted, with the
\* operations it covers, as a success or as a failure; a run whose calls all
\* failed returns failed count = total operations, succeeded count = 0 and a
\* non-empty latency list.
C7_EveryCallCounted ==
    ~(config.op \in SeqOperations) =>
        /\ WorkersSum([n \in 1..Len(workers) |->
                          [len |-> Len(workers[n].latencies)]], "len") = db.calls
        /\ WorkersSum(workers, "successCount") + WorkersSum(workers, "errorCount")
              = db.attempted
        /\ (pc = "returned" /\ result.status = "ok" /\ db.failed = db.calls
                /\ db.calls > 0) =>
              /\ result.ErrorCount = config.numOps
              /\ result.SuccessCount = 0
              /\ \E k \in KindSet : allLatencies[k] # <<>>

\* the sequential operations that count a failed call and go on
ContinuingSeqOperations == {"UpdateRandomRecords", "UpdateBatchRecords"}

AllWorkersDone == \A n \in 1..Len(workers) : workers[n].pc = "done"

\* C9 (step part): wg.Wait returns only when every planned worker has been
\* started and has called Done.
C9_WaitStep ==
    (pc = "wait" /\ pc' # "wait") =>
        pending = <<>> /\ AllWorkersDone /\ pc' = "joined"

\* C9 (state part): the run has not returned while an operation call has not
\* returned.
C9_Blocked ==
    (\E n \in 1..Len(workers) : workers[n].pc = "call") => ~Joined

\* C9: a concurrent run joins its workers without a timeout: wg.Wait returns
\* only when every started worker has called Done, the run does not return while
\* an operation call has not returned, and when every call returns and the
\* scheduler is fair the run returns.
C9_JoinSemantics ==
    /\ [][C9_WaitStep]_vars
    /\ []C9_Blocked
    /\ (pc \in {"spawn", "wait"}) ~> (pc = "returned")

\* the run waits: one worker is done, another is inside an operation call
C9_Witness ==
    /\ pc = "wait"
    /\ \E n \in 1..Len(workers) : workers[n].pc = "done"
    /\ \E n \in 1..Len(workers) : workers[n].pc = "call"

\* C10: the shared latency slices and counters are read only after wg.Wait has
\* returned, when every worker has completed its merge, released the mutex and
\* called Done: the result is built from the final merged state.
C10_ReadsAfterJoin ==
    (Joined /\ ~(config.op \in SeqOperations)) =>
        /\ AllWorkersDone
        /\ Len(workers) = Len(LaunchPlan(config, dist))
        /\ mu = 0
        /\ wg = 0
        /\ (pc = "returned" /\ IsConcurrent) =>
              /\ result.SuccessCount = WorkersSum(workers, "successCount")
              /\ result.ErrorCount = WorkersSum(workers, "errorCount")
              /\ result.p50 = CalculatePercentiles(allLatencies[KindOf(config.op)])[1]

\* a result has been built from the merged lists of two workers
C10_Witness ==
    /\ pc = "returned"
    /\ IsConcurrent
    /\ Len(workers) = 2
    /\ \A n \in 1..Len(workers) : workers[n].latencies # <<>>
    /\ result.status = "ok"
    /\ result.SuccessCount + result.ErrorCount = config.numOps

(***************************************************************************)
(* Properties of the critical section                                      *)
(***************************************************************************)
\* the positions of a worker between mu.Lock() and mu.Unlock()
InCriticalSection(w) == w.pc \in {"locked", "merged"}

\* the positions of a worker after mu.Lock() has returned
PastLock(w) == w.pc \in {"locked", "merged", "exit", "done"}

\* C11 (state part): at most one worker is between Lock and Unlock, it is the
\* holder of the mutex, and a worker that has taken the mutex has finished its
\* operation loop.
C11_Exclusive ==
    /\ \A a, b \in 1..Len(workers) :
          (InCriticalSection(workers[a]) /\ InCriticalSection(workers[b])) => a = b
    /\ \A n \in 1..Len(workers) :
          /\ InCriticalSection(workers[n]) <=> mu = n
          /\ PastLock(workers[n]) => workers[n].i >= workers[n].ops

\* C11 (step part): a worker takes the mutex only from the end of its loop and
\* only when it is free, never takes it again, and while a worker runs the
\* shared slices and counters change only in the step of the mutex holder that
\* appends its whole local list and adds its counters.
C11_Step ==
    /\ \A n \in 1..Len(workers) :
          LET w == workers[n]
              v == workers'[n]
          IN  /\ (v.pc = "locked" /\ w.pc # "locked") =>
                    /\ w.pc = "loop"
                    /\ w.i >= w.ops
                    /\ mu = 0
                    /\ mu' = n
              /\ PastLock(w) => v.pc \notin {"loop", "call"}
              /\ (PastLock(w) /\ w.pc # "locked") => v.pc # "locked"
              /\ v.latencies # w.latencies => ~PastLock(w)
    /\ (<<allLatencies, totalSuccess, totalErrors>>'
            # <<allLatencies, totalSuccess, totalErrors>> /\ pc # "joined") =>
          \E n \in 1..Len(workers) :
              LET w == workers[n]
              IN  /\ w.pc = "locked"
                  /\ mu = n
                  /\ workers'[n].pc = "merged"
                  /\ allLatencies' = [allLatencies EXCEPT ![w.kind] = @ \o w.latencies]
                  /\ totalSuccess' = totalSuccess + w.successCount
                  /\ totalErrors' = totalErrors + w.errorCount

\* C11: every worker takes the shared mutex once, after its whole operation
\* loop, appends its whole local list in that critical section and writes the
\* shared slice and counters nowhere else; at most one worker is inside.
C11_OneCriticalSection == []C11_Exclusive /\ [][C11_Step]_vars

\* a worker has appended its list and still holds the mutex while another
\* worker, its loop finished, waits for it
C11_Witness ==
    /\ Len(workers) = 2
    /\ workers[2].pc = "merged"
    /\ mu = 2
    /\ workers[2].latencies # <<>>
    /\ allLatencies[workers[2].kind] = workers[2].latencies
    /\ workers[1].pc = "loop"
    /\ workers[1].ops > 0
    /\ workers[1].i >= workers[1].ops

(***************************************************************************)
(* Properties of the result                                                *)
(***************************************************************************)
RECURSIVE ListsInStartOrder(_, _)
\* the local lists of the workers of kind k, joined in the order the workers
\* were started, whatever the order they finished in
ListsInStartOrder(ws, k) ==
    IF ws = <<>>
    THEN <<>>
    ELSE (IF Head(ws).kind = k THEN Head(ws).latencies ELSE <<>>)
         \o ListsInStartOrder(Tail(ws), k)

\* C12: the result of a concurrent run is determined by the workers' local
\* lists and counters alone: p50, p95, p99, SuccessCount and ErrorCount, and for
\* a mixed workload the per-kind throughput from the summed latencies, are what
\* the lists taken in start order give, whatever order the workers merged in.
C12_OrderIndependent ==
    (pc = "returned" /\ result.status = "ok" /\ ~(config.op \in SeqOperations)) =>
        IF IsMixed
        THEN /\ result.InsertThroughput =
                    KindThroughput(config.InsertOps, ListsInStartOrder(workers, "insert"))
             /\ result.ReadThroughput =
                    KindThroughput(config.ReadOps, ListsInStartOrder(workers, "read"))
             /\ result.UpdateThroughput =
                    KindThroughput(config.UpdateOps, ListsInStartOrder(workers, "update"))
        ELSE result = ConcurrentResult(
                          ListsInStartOrder(workers, KindOf(config.op)),
                          WorkersSum(workers, "successCount"),
                          WorkersSum(workers, "errorCount"))

\* a run of two workers has returned whose lists, in start order, are not in
\* ascending order: the percentiles are those of the sorted list
C12_Witness ==
    /\ pc = "returned"
    /\ IsConcurrent
    /\ Len(workers) = 2
    /\ workers[1].latencies = <<2>>
    /\ workers[2].latencies = <<1>>
    /\ workers[1].errorCount = 1
    /\ result.p50 = 2
    /\ result.ErrorCount = 1

(***************************************************************************)
(* RunMixedWorkloadPgbench (package postgres) with GenerateMixedScript and *)
(* Execute (package pgbench)                                               *)
(***************************************************************************)
\* largest small total operation count given to RunMixedWorkloadPgbench
MaxPgOps == 4
\* largest connection count given to RunMixedWorkloadPgbench
MaxPgConn == 3

\* the totals: the small ones, and two the weights divide without a remainder
PgOpsValues == (0..MaxPgOps) \cup {10, 100}
\* the weights of the three scenarios (90/10/0, 10/90/0, 50/30/20), and others
PgWeights == {0, 10, 20, 30, 50, 90}

PgConfigs ==
    [op : {"RunMixedWorkloadPgbench"}, totalOps : PgOpsValues,
     connections : 0..MaxPgConn, insertWeight : PgWeights,
     readWeight : PgWeights, updateWeight : PgWeights]

\* insertOps := (totalOps * insertWeight) / 100
WeightedOps(totalOps, weight) == (totalOps * weight) \div 100

\* GenerateMixedScript: a comment line when the weights do not sum to 100, else
\* the script with its two thresholds
GenerateMixedScript(insertWeight, readWeight, updateWeight) ==
    IF insertWeight + readWeight + updateWeight # 100
    THEN [kind |-> "error-comment", insert_threshold |-> 0, update_threshold |-> 0]
    ELSE [kind |-> "mixed", insert_threshold |-> insertWeight,
          update_threshold |-> insertWeight + readWeight]

\* Transactions: totalOps / connections
ClientTransactions(totalOps, connections) == totalOps \div connections

\* Execute rejects a configuration with neither transactions nor a duration
ExecuteRejects(transactions) == transactions = 0

PgNoResult == [status |-> "none", TotalOps |-> 0, InsertOps |-> 0,
               ReadOps |-> 0, UpdateOps |-> 0,
               InsertThroughput |-> ZeroThroughput,
               ReadThroughput |-> ZeroThroughput,
               UpdateThroughput |-> ZeroThroughput]

\* what pgbench has been asked to do so far
PgIdle == [executeCalls |-> 0, started |-> 0, script |-> "none",
           clients |-> 0, transactions |-> 0]

PgInit ==
    /\ config \in PgConfigs
    /\ pc = "pg_dataset"
    /\ dist = NoWorkers
    /\ pending = <<>>
    /\ workers = <<>>
    /\ wg = 0
    /\ mu = 0
    /\ allLatencies = EmptyLatencies
    /\ totalSuccess = 0
    /\ totalErrors = 0
    /\ seq = [i |-> 0, latencies |-> <<>>, successCount |-> 0, errorCount |-> 0]
    /\ result = PgNoResult
    /\ db = PgIdle

\* a step of RunMixedWorkloadPgbench that can only go on or return its error
PgStep(from, to, ok) ==
    /\ pc = from
    /\ pc' = IF ok THEN to ELSE "returned"
    /\ result' = IF ok THEN result ELSE [PgNoResult EXCEPT !.status = "error"]

\* InsertRecordsPgbench of the initial dataset, and ResetStats
PgDataset(ok) ==
    /\ PgStep("pg_dataset", "pg_lsn", ok)
    /\ UNCHANGED <<config, dist, pending, workers, wg, mu, allLatencies,
                   totalSuccess, totalErrors, seq, db>>

\* the operation counts are computed and printed; getCurrentLSN
PgStartLSN(ok) ==
    /\ PgStep("pg_lsn", "pg_copy", ok)
    /\ UNCHANGED <<config, dist, pending, workers, wg, mu, allLatencies,
                   totalSuccess, totalErrors, seq, db>>

\* GenerateMixedScript, and CopyScriptToContainer of what it returned
PgCopyScript(ok) ==
    /\ PgStep("pg_copy", "pg_exec", ok)
    /\ db' = IF ok
             THEN [db EXCEPT !.script = GenerateMixedScript(config.insertWeight,
                                 config.readWeight, config.updateWeight).kind]
             ELSE db
    /\ UNCHANGED <<config, dist, pending, workers, wg, mu, allLatencies,
                   totalSuccess, totalErrors, seq>>

\* execCfg is built (totalOps / connections panics for no connection) and
\* pgbench.Execute is called: it rejects the configuration or starts pgbench
PgExecute ==
    /\ pc = "pg_exec"
    /\ IF config.connections = 0
       THEN /\ pc' = "panicked"
            /\ result' = [PgNoResult EXCEPT !.status = "panic"]
            /\ db' = db
       ELSE LET transactions == ClientTransactions(config.totalOps, config.connections)
            IN  IF ExecuteRejects(transactions)
                THEN /\ pc' = "returned"
                     /\ result' = [PgNoResult EXCEPT !.status = "error"]
                     /\ db' = [db EXCEPT !.executeCalls = @ + 1]
                ELSE /\ pc' = "pg_running"
                     /\ result' = result
                     /\ db' = [db EXCEPT !.executeCalls = @ + 1,
                                         !.started = @ + 1,
                                         !.clients = config.connections,
                                         !.transactions = transactions]
    /\ UNCHANGED <<config, dist, pending, workers, wg, mu, allLatencies,
                   totalSuccess, totalErrors, seq>>

\* pgbench ends: cmd.Run failed or the exit code is not 0, or it went well
PgExit(ok) ==
    /\ PgStep("pg_running", "pg_parse", ok)
    /\ UNCHANGED <<config, dist, pending, workers, wg, mu, allLatencies,
                   totalSuccess, totalErrors, seq, db>>

\* ParsePgbenchOutput, then the end LSN
PgParse(ok) ==
    /\ PgStep("pg_parse", "pg_metrics", ok)
    /\ UNCHANGED <<config, dist, pending, workers, wg, mu, allLatencies,
                   totalSuccess, totalErrors, seq, db>>

\* the MixedWorkloadResult RunMixedWorkloadPgbench returns
PgResult(c) ==
    [PgNoResult EXCEPT
        !.status = "ok",
        !.TotalOps = c.totalOps,
        !.InsertOps = WeightedOps(c.totalOps, c.insertWeight),
        !.ReadOps = WeightedOps(c.totalOps, c.readWeight),
        !.UpdateOps = WeightedOps(c.totalOps, c.updateWeight)]

\* MeasureMetrics, and the result
PgFinish(ok) ==
    /\ pc = "pg_metrics"
    /\ pc' = "returned"
    /\ result' = IF ok THEN PgResult(config) ELSE [PgNoResult EXCEPT !.status = "error"]
    /\ UNCHANGED <<config, dist, pending, workers, wg, mu, allLatencies,
                   totalSuccess, totalErrors, seq, db>>

PgNext ==
    \/ \E ok \in BOOLEAN : PgDataset(ok)
    \/ \E ok \in BOOLEAN : PgStartLSN(ok)
    \/ \E ok \in BOOLEAN : PgCopyScript(ok)
    \/ PgExecute
    \/ \E ok \in BOOLEAN : PgExit(ok)
    \/ \E ok \in BOOLEAN : PgParse(ok)
    \/ \E ok \in BOOLEAN : PgFinish(ok)

PgbenchSpec == PgInit /\ [][PgNext]_vars

WeightSum == config.insertWeight + config.readWeight + config.updateWeight

\* C13: with weights that do not sum to 100, RunMixedWorkloadPgbench never
\* calls pgbench.Execute and starts no pgbench client, and what it returns is
\* an error.
C13_RejectsBadWeights ==
    WeightSum # 100 =>
        /\ db.executeCalls = 0
        /\ db.started = 0
        /\ pc \notin {"pg_running", "pg_parse", "pg_metrics"}
        /\ pc = "returned" => result.status = "error"

\* C14: a call of InsertRecordsConcurrent, ReadRandomRecordsConcurrent,
\* UpdateRandomRecordsConcurrent or RunMixedWorkload with connections == 0 does
\* not panic, starts no worker goroutine, and what it returns is an error.
C14_ZeroBudgetIsAnError ==
    (config.connections = 0 /\ (IsConcurrent \/ IsMixed)) =>
        /\ pc # "panicked"
        /\ workers = <<>>
        /\ pc = "returned" => result.status = "error"

(***************************************************************************)
(* CalculatePercentiles on its own                                         *)
(***************************************************************************)
\* largest length of the sample lists that are enumerated in full
MaxSamples == 4
\* the samples of those lists are drawn from 0..MaxSampleValue
MaxSampleValue == 2

Reverse(s) == [i \in 1..Len(s) |-> s[Len(s) + 1 - i]]
Rotate(s) == IF s = <<>> THEN s ELSE Tail(s) \o <<Head(s)>>

\* every list of at most MaxSamples samples
ShortSamples ==
    UNION {[1..n -> 0..MaxSampleValue] : n \in 0..MaxSamples}

\* the lengths at which the three indices part from each other and from n - 1,
\* and the 4 * 100 samples of four workers
LongLengths == {20, 21, 100, 101, 400}

\* long lists: n distinct samples in descending order and rotated once, and n
\* samples of 10
LongSamples ==
    UNION {{[i \in 1..n |-> n + 1 - i],
            Rotate([i \in 1..n |-> i]),
            [i \in 1..n |-> 10]} : n \in LongLengths}

PercentilesInit ==
    /\ config \in [op : {"CalculatePercentiles"},
                   latencies : ShortSamples \cup LongSamples]
    /\ pc = "percentiles"
    /\ dist = NoWorkers
    /\ pending = <<>>
    /\ workers = <<>>
    /\ wg = 0
    /\ mu = 0
    /\ allLatencies = EmptyLatencies
    /\ totalSuccess = 0
    /\ totalErrors = 0
    /\ seq = [i |-> 0, latencies |-> config.latencies,
              successCount |-> 0, errorCount |-> 0]
    /\ result = NoResult
    /\ db = [calls |-> 0, failed |-> 0, attempted |-> 0]

\* CalculatePercentiles(latencies): the caller's slice is sorted in place unless
\* it is empty, and the three values are returned
Percentiles ==
    /\ pc = "percentiles"
    /\ LET p == CalculatePercentiles(seq.latencies)
       IN  result' = [NoResult EXCEPT !.status = "ok",
                                      !.p50 = p[1], !.p95 = p[2], !.p99 = p[3]]
    /\ seq' = [seq EXCEPT !.latencies = SortAscending(@)]
    /\ pc' = "returned"
    /\ UNCHANGED <<config, dist, pending, workers, wg, mu, allLatencies,
                   totalSuccess, totalErrors, db>>

PercentilesNext == Percentiles

PercentilesSpec == PercentilesInit /\ [][PercentilesNext]_vars

\* how many samples of s are below v, and how many are not above it
CountLess(s, v) == Cardinality({i \in 1..Len(s) : s[i] < v})
CountLessEq(s, v) == Cardinality({i \in 1..Len(s) : s[i] <= v})

\* v stands at the zero-based index floor(n * p / 100) of the ascending order
\* of s, and that index is below n
AtPercentileIndex(s, p, v) ==
    \E k \in 0..(Len(s) - 1) :
        /\ k * 100 <= Len(s) * p
        /\ Len(s) * p < (k + 1) * 100
        /\ CountLess(s, v) <= k
        /\ k < CountLessEq(s, v)

\* C15: for n >= 1 samples CalculatePercentiles returns the samples at the
\* zero-based indices floor(n*50/100), floor(n*95/100) and floor(n*99/100) of
\* the ascending order, each index below n; for no sample it returns (0, 0, 0).
C15_NearestRankIndex ==
    (config.op = "CalculatePercentiles" /\ pc = "returned") =>
        IF Len(config.latencies) = 0
        THEN result.p50 = 0 /\ result.p95 = 0 /\ result.p99 = 0
        ELSE /\ AtPercentileIndex(config.latencies, 50, result.p50)
             /\ AtPercentileIndex(config.latencies, 95, result.p95)
             /\ AtPercentileIndex(config.latencies, 99, result.p99)

\* 101 distinct samples given in descending order: indices 50, 95 and 99
C15_Witness ==
    /\ config.op = "CalculatePercentiles"
    /\ pc = "returned"
    /\ Len(config.latencies) = 101
    /\ config.latencies[1] = 101
    /\ config.latencies[2] = 100
    /\ result.p50 = 51
    /\ result.p95 = 96
    /\ result.p99 = 100

\* the rearrangements of a list that are compared: all of a short list; of a
\* long one its reverse and its rotations by one and by two
Rearrangements(s) ==
    IF Len(s) <= MaxSamples
    THEN {[i \in 1..Len(s) |-> s[f[i]]] : f \in Permutations(1..Len(s))}
    ELSE {Reverse(s), Rotate(s), Rotate(Rotate(s))}

\* C16: for a non-empty list CalculatePercentiles returns the same three values
\* for every rearrangement of the list, and p50 <= p95 <= p99; four workers'
\* 100 samples of 10 each give p50 = p95 = p99 = 10.
C16_PermutationInvariant ==
    (config.op = "CalculatePercentiles" /\ pc = "returned"
        /\ Len(config.latencies) >= 1) =>
        /\ \A q \in Rearrangements(config.latencies) :
              CalculatePercentiles(q) = <<result.p50, result.p95, result.p99>>
        /\ result.p50 <= result.p95
        /\ result.p95 <= result.p99
        /\ config.latencies = [i \in 1..400 |-> 10] =>
              result.p50 = 10 /\ result.p95 = 10 /\ result.p99 = 10

\* the 400 samples of 10 have been given
C16_Witness ==
    /\ config.op = "CalculatePercentiles"
    /\ pc = "returned"
    /\ config.latencies = [i \in 1..400 |-> 10]
    /\ result.p50 = 10
    /\ result.p95 = 10
    /\ result.p99 = 10

(***************************************************************************)
(* The throughput of a result: the end of ReadRandomRecords, of the three  *)
(* concurrent operations and of RunMixedWorkload, from the latencies and   *)
(* the wall-clock duration measured                                        *)
(***************************************************************************)
\* largest operation count of a run whose throughput is computed
MaxTimedOps == 3
\* largest per-kind operation count of a mixed workload whose throughput is computed
MaxTimedMixedOps == 1
\* measured latencies and durations are drawn from 0..MaxTimedLatency
MaxTimedLatency == 1

\* the lists of n measured latencies
TimedLists(n) == [1..n -> 0..MaxTimedLatency]

\* a wall-clock duration covers every call made in it
Covers(duration, latencies) ==
    \A i \in 1..Len(latencies) : latencies[i] <= duration

TimedNoResult == [status |-> "none",
                  Throughput |-> ZeroThroughput,
                  OverallThroughput |-> ZeroThroughput,
                  InsertThroughput |-> ZeroThroughput,
                  ReadThroughput |-> ZeroThroughput,
                  UpdateThroughput |-> ZeroThroughput]

\* the calls whose loops are over: one latency has been recorded per operation
TimedConfigs ==
    {Config(op, n, 1, 1, 0, 0, 0) :
        op \in ConcOperations \cup {"ReadRandomRecords"}, n \in 0..MaxTimedOps}
    \cup
    {Config("RunMixedWorkload", i + (r + u), 1, 1, i, r, u) :
        i \in 0..MaxTimedMixedOps, r \in 0..MaxTimedMixedOps,
        u \in 0..MaxTimedMixedOps}

ThroughputInit ==
    /\ config \in TimedConfigs
    /\ pc = "measure"
    /\ dist = NoWorkers
    /\ pending = <<>>
    /\ workers = <<>>
    /\ wg = 0
    /\ mu = 0
    /\ IF config.op = "RunMixedWorkload"
       THEN allLatencies \in [KindSet -> UNION {TimedLists(n) : n \in 0..MaxTimedMixedOps}]
            /\ Len(allLatencies["insert"]) = config.InsertOps
            /\ Len(allLatencies["read"]) = config.ReadOps
            /\ Len(allLatencies["update"]) = config.UpdateOps
       ELSE IF config.op \in ConcOperations
       THEN \E l \in TimedLists(config.numOps) :
                allLatencies = [EmptyLatencies EXCEPT ![KindOf(config.op)] = l]
       ELSE allLatencies = EmptyLatencies
    /\ totalSuccess = 0
    /\ totalErrors = 0
    /\ IF config.op = "ReadRandomRecords"
       THEN \E l \in TimedLists(config.numOps) :
                seq = [i |-> config.numOps, latencies |-> l,
                       successCount |-> 0, errorCount |-> 0]
       ELSE seq = [i |-> 0, latencies |-> <<>>, successCount |-> 0, errorCount |-> 0]
    /\ result = TimedNoResult
    /\ db = [calls |-> 0, failed |-> 0, attempted |-> 0]

\* ReadRandomRecords: the duration is the sum of the latencies
ReadThroughputResult ==
    /\ pc = "measure"
    /\ config.op = "ReadRandomRecords"
    /\ result' = [TimedNoResult EXCEPT
                     !.status = "ok",
                     !.Throughput = Throughput(config.numOps, SumSeq(seq.latencies))]
    /\ seq' = [seq EXCEPT !.latencies = SortAscending(@)]
    /\ pc' = "returned"
    /\ UNCHANGED <<config, dist, pending, workers, wg, mu, allLatencies,
                   totalSuccess, totalErrors, db>>

\* InsertRecordsConcurrent, ReadRandomRecordsConcurrent and
\* UpdateRandomRecordsConcurrent: duration := time.Since(startTime)
ConcurrentThroughputResult(duration) ==
    /\ pc = "measure"
    /\ config.op \in ConcOperations
    /\ Covers(duration, allLatencies[KindOf(config.op)])
    /\ result' = [TimedNoResult EXCEPT
                     !.status = "ok",
                     !.Throughput = Throughput(config.numOps, duration)]
    /\ allLatencies' = [allLatencies EXCEPT ![KindOf(config.op)] = SortAscending(@)]
    /\ pc' = "returned"
    /\ UNCHANGED <<config, dist, pending, workers, wg, mu,
                   totalSuccess, totalErrors, seq, db>>

\* RunMixedWorkload: the per-kind throughputs and the overall throughput
MixedThroughputResult(duration) ==
    /\ pc = "measure"
    /\ config.op = "RunMixedWorkload"
    /\ \A k \in KindSet : Covers(duration, allLatencies[k])
    /\ result' = [TimedNoResult EXCEPT
           !.status = "ok",
           !.InsertThroughput = KindThroughput(config.InsertOps, allLatencies["insert"]),
           !.ReadThroughput = KindThroughput(config.ReadOps, allLatencies["read"]),
           !.UpdateThroughput = KindThroughput(config.UpdateOps, allLatencies["update"]),
           !.OverallThroughput = Throughput(config.numOps, duration)]
    /\ pc' = "returned"
    /\ UNCHANGED <<config, dist, pending, workers, wg, mu, allLatencies,
                   totalSuccess, totalErrors, seq, db>>

ThroughputNext ==
    \/ ReadThroughputResult
    \/ \E duration \in 0..MaxTimedLatency : ConcurrentThroughputResult(duration)
    \/ \E duration \in 0..MaxTimedLatency : MixedThroughputResult(duration)

ThroughputSpec == ThroughputInit /\ [][ThroughputNext]_vars

ThroughputFields == {"Throughput", "OverallThroughput", "InsertThroughput",
                     "ReadThroughput", "UpdateThroughput"}

\* C17: no throughput of a returned result is the quotient of a division by a
\* zero duration: where the duration is zero the throughput is 0, neither
\* infinite nor NaN.
C17_NoDivisionByZero ==
    (pc = "returned" /\ "Throughput" \in DOMAIN result) =>
        \A f \in ThroughputFields :
            /\ ~IsInf(result[f])
            /\ ~IsNaN(result[f])

(***************************************************************************)
(* The mixed-workload scenarios (MixedWorkloadInsertHeavy,                 *)
(* MixedWorkloadReadHeavy, MixedWorkloadBalanced) up to the launch plan of *)
(* RunMixedWorkload                                                        *)
(***************************************************************************)
\* largest total operation count given to a scenario
MaxScenarioOps == 12
\* largest connection count given to a scenario
MaxScenarioConn == 3

Scenarios == {"MixedWorkloadInsertHeavy", "MixedWorkloadReadHeavy",
              "MixedWorkloadBalanced"}

\* the percentages of a scenario: insert, read, update
ScenarioShare(scenario) ==
    CASE scenario = "MixedWorkloadInsertHeavy" -> <<90, 10, 0>>
      [] scenario = "MixedWorkloadReadHeavy"   -> <<10, 90, 0>>
      [] OTHER                                 -> <<50, 30, 20>>

\* int(float64(totalOps) * 0.90) and the like: for the totals of the model, and
\* up to 2000, the truncated float64 product is the integer quotient
ScenarioOps(totalOps, percent) == (totalOps * percent) \div 100

ScenarioInit ==
    /\ config \in [op : Scenarios, totalOps : 0..MaxScenarioOps,
                   connections : 1..MaxScenarioConn]
    /\ pc = "scenario"
    /\ Fresh

\* the scenario builds the MixedWorkloadConfig and calls RunMixedWorkload, whose
\* first phases (initial dataset, ResetStats, start LSN) go well
ScenarioConfig ==
    /\ pc = "scenario"
    /\ config.op \in Scenarios
    /\ LET share == ScenarioShare(config.op)
       IN  config' = Config("RunMixedWorkload", config.totalOps, config.connections, 1,
                            ScenarioOps(config.totalOps, share[1]),
                            ScenarioOps(config.totalOps, share[2]),
                            ScenarioOps(config.totalOps, share[3]))
    /\ pc' = "distribute"
    /\ UNCHANGED <<dist, pending, workers, wg, mu, allLatencies,
                   totalSuccess, totalErrors, seq, result, db>>

ScenarioNext == ScenarioConfig \/ DistNext

ScenarioSpec == ScenarioInit /\ [][ScenarioNext]_vars

\* TotalOps: config.TotalOps, the TotalOps of the MixedWorkloadResult and the
\* numerator of its OverallThroughput
ReportedTotalOps == config.numOps

\* C18: the TotalOps a mixed workload reports, the numerator of its
\* OverallThroughput, is InsertOps + ReadOps + UpdateOps and is the number of
\* operations its workers are asked to run, for every total >= 0 and every
\* connection count >= 1.
C18_TotalIsExecuted ==
    (IsMixed /\ Planned /\ config.connections >= 1) =>
        /\ ReportedTotalOps = RequestedOps
        /\ ReportedTotalOps = SumSeq(OpsOf(pending))

(***************************************************************************)
(* MannWhitneyU (package statistics)                                       *)
(***************************************************************************)
\* largest length of groupA
MaxGroupA == 3
\* largest length of groupB
MaxGroupB == 2
\* the values of the groups are drawn from 0..MaxRankValue
MaxRankValue == 2

GroupsUpTo(n) == UNION {[1..m -> 0..MaxRankValue] : m \in 0..n}

Abs(x) == IF x < 0 THEN 0 - x ELSE x

\* A p-value 2 * normalCDF(-|z|), kept as the quotient z it is computed from:
\* |z| = zNum / (2 * sqrt(var12 / 12)). It is 1.0 exactly when zNum is 0 and
\* var12 is not; a zero var12 is a division by zero.

\* a faulty variant: the quotient 0 / 0 in place of 1.0
UnguardedQuotient == [zNum |-> 0, var12 |-> 0]

\* `return 1.0`
NoDifference == [zNum |-> 0, var12 |-> 1]

IsOne(p) == p.zNum = 0 /\ p.var12 # 0

\* if len(groupA) == 0 || len(groupB) == 0
EitherEmpty(groupA, groupB) == Len(groupA) = 0 \/ Len(groupB) = 0

\* combined: groupA's values with group 0, then groupB's with group 1
Combined(groupA, groupB) ==
    [i \in 1..(Len(groupA) + Len(groupB)) |->
        IF i <= Len(groupA)
        THEN [value |-> groupA[i], group |-> 0]
        ELSE [value |-> groupB[i - Len(groupA)], group |-> 1]]

ValuesOf(c) == [i \in 1..Len(c) |-> c[i].value]

\* sort.Slice is not stable: what it leaves is some ascending arrangement of the
\* items, equal values in any order
SortedArrangements(c) ==
    LET vals == SortSeq(ValuesOf(c), LAMBDA a, b : a < b)
    IN  {s \in {[i \in 1..Len(c) |-> [value |-> vals[i], group |-> g[i]]] :
                    g \in [1..Len(c) -> {0, 1}]} :
            BagOfSeq(s) = BagOfSeq(c)}

RECURSIVE BlockEnd(_, _, _)
\* for j < len(combined) && combined[j].value == combined[i].value { j++ }
\* (i and j are the zero-based indices of the code)
BlockEnd(c, i, j) ==
    IF j < Len(c) /\ c[j + 1].value = c[i + 1].value
    THEN BlockEnd(c, i, j + 1)
    ELSE j

\* a faulty variant: every item of a block gets the block's first rank
FirstRank2(i, j) == 2 * (i + 1)

\* avgRank := float64(i+j+1) / 2.0, doubled
AvgRank2(i, j) == i + j + 1

RECURSIVE AssignRanksFrom(_, _, _)
\* the ranking loop from index i on; the ranks are kept doubled
AssignRanksFrom(c, i, ranks) ==
    IF i >= Len(c)
    THEN ranks
    ELSE LET j == BlockEnd(c, i, i)
         IN  AssignRanksFrom(c, j,
                 [k \in 1..Len(c) |->
                     IF i < k /\ k <= j THEN AvgRank2(i, j) ELSE ranks[k]])

AssignRanks(c) == AssignRanksFrom(c, 0, [k \in 1..Len(c) |-> 0])

\* rankSumA, doubled
RankSumA2(c, ranks) ==
    SumSeq([k \in 1..Len(c) |-> IF c[k].group = 0 THEN ranks[k] ELSE 0])

\* U1 := rankSumA - float64(n1*(n1+1))/2.0, doubled
U1Doubled(rankSumA2, n1) == rankSumA2 - n1 * (n1 + 1)

\* U2 := float64(n1*n2) - U1, doubled
U2Doubled(u1, n1, n2) == 2 * n1 * n2 - u1

\* float64(n1*n2*(n1+n2+1)) / 12.0 under the square root, times 12
Var12(n1, n2) == n1 * n2 * (n1 + n2 + 1)

\* if stdU == 0
StdUIsZero(n1, n2) == Var12(n1, n2) = 0

\* z := (U - meanU) / stdU and the p-value of it, or 1.0
PValueOf(u, n1, n2) ==
    IF StdUIsZero(n1, n2)
    THEN NoDifference
    ELSE [zNum |-> Abs(u - n1 * n2), var12 |-> Var12(n1, n2)]

MWLocals == [combined |-> <<>>, ranks |-> <<>>, U1 |-> 0, U2 |-> 0, U |-> 0]
MWNoResult == [status |-> "none", pValue |-> NoDifference]

MannWhitneyInit ==
    /\ config \in [op : {"MannWhitneyU"}, groupA : GroupsUpTo(MaxGroupA),
                   groupB : GroupsUpTo(MaxGroupB)]
    /\ pc = "mw_start"
    /\ dist = NoWorkers
    /\ pending = <<>>
    /\ workers = <<>>
    /\ wg = 0
    /\ mu = 0
    /\ allLatencies = EmptyLatencies
    /\ totalSuccess = 0
    /\ totalErrors = 0
    /\ seq = MWLocals
    /\ result = MWNoResult
    /\ db = [calls |-> 0, failed |-> 0, attempted |-> 0]

\* the test of the lengths, and the combined slice
MWCombine ==
    /\ pc = "mw_start"
    /\ IF EitherEmpty(config.groupA, config.groupB)
       THEN /\ result' = [status |-> "ok", pValue |-> NoDifference]
            /\ pc' = "returned"
            /\ seq' = seq
       ELSE /\ seq' = [seq EXCEPT !.combined = Combined(config.groupA, config.groupB)]
            /\ pc' = "mw_sort"
            /\ result' = result
    /\ UNCHANGED <<config, dist, pending, workers, wg, mu, allLatencies,
                   totalSuccess, totalErrors, db>>

\* sort.Slice(combined, ...)
MWSort ==
    /\ pc = "mw_sort"
    /\ \E s \in SortedArrangements(seq.combined) :
           seq' = [seq EXCEPT !.combined = s]
    /\ pc' = "mw_rank"
    /\ UNCHANGED <<config, dist, pending, workers, wg, mu, allLatencies,
                   totalSuccess, totalErrors, result, db>>

\* the ranking loop
MWRank ==
    /\ pc = "mw_rank"
    /\ seq' = [seq EXCEPT !.ranks = AssignRanks(seq.combined)]
    /\ pc' = "mw_sum"
    /\ UNCHANGED <<config, dist, pending, workers, wg, mu, allLatencies,
                   totalSuccess, totalErrors, result, db>>

\* the rank sum of group A, U1, U2 and U
MWStatistic ==
    /\ pc = "mw_sum"
    /\ LET n1 == Len(config.groupA)
           n2 == Len(config.groupB)
           u1 == U1Doubled(RankSumA2(seq.combined, seq.ranks), n1)
           u2 == U2Doubled(u1, n1, n2)
       IN  seq' = [seq EXCEPT !.U1 = u1, !.U2 = u2, !.U = Min(u1, u2)]
    /\ pc' = "mw_pvalue"
    /\ UNCHANGED <<config, dist, pending, workers, wg, mu, allLatencies,
                   totalSuccess, totalErrors, result, db>>

\* the normal approximation and the return
MWPValue ==
    /\ pc = "mw_pvalue"
    /\ result' = [status |-> "ok",
                  pValue |-> PValueOf(seq.U, Len(config.groupA), Len(config.groupB))]
    /\ pc' = "returned"
    /\ UNCHANGED <<config, dist, pending, workers, wg, mu, allLatencies,
                   totalSuccess, totalErrors, seq, db>>

MannWhitneyNext == MWCombine \/ MWSort \/ MWRank \/ MWStatistic \/ MWPValue

MannWhitneySpec == MannWhitneyInit /\ [][MannWhitneyNext]_vars

\* every value of the two groups
GroupValues == config.groupA \o config.groupB

\* twice the number of pairs (a, b) of groupA x groupB with a > b, plus the
\* number of pairs with a = b
PairScore(groupA, groupB) ==
    SumSeq([i \in 1..Len(groupA) |->
        SumSeq([j \in 1..Len(groupB) |->
            IF groupA[i] > groupB[j] THEN 2
            ELSE IF groupA[i] = groupB[j] THEN 1 ELSE 0])])

IsAscending(c) == \A k \in 1..(Len(c) - 1) : c[k].value <= c[k + 1].value

\* C19: whatever order the sort leaves equal values in, the combined items are
\* in ascending order; every item's rank is the average of the ranks 1..N its
\* block of equal values spans, so the ranks sum to N(N+1)/2; U1 is group A's
\* rank sum less n1(n1+1)/2, which is the number of pairs a > b plus half the
\* number of pairs a = b, U2 = n1*n2 - U1 and U = min(U1, U2). (Ranks and U
\* are kept doubled.)
C19_AverageRanks ==
    LET n1 == Len(config.groupA)
        n2 == Len(config.groupB)
        c == seq.combined
    IN  /\ pc \in {"mw_rank", "mw_sum", "mw_pvalue"} =>
              /\ IsAscending(c)
              /\ BagOfSeq(c) = BagOfSeq(Combined(config.groupA, config.groupB))
        /\ pc \in {"mw_sum", "mw_pvalue"} =>
              /\ \A k \in 1..Len(c) :
                    seq.ranks[k] = (CountLess(GroupValues, c[k].value) + 1)
                                   + CountLessEq(GroupValues, c[k].value)
              /\ SumSeq(seq.ranks) = (n1 + n2) * (n1 + n2 + 1)
        /\ pc = "mw_pvalue" =>
              /\ seq.U1 = RankSumA2(c, seq.ranks) - n1 * (n1 + 1)
              /\ seq.U1 = PairScore(config.groupA, config.groupB)
              /\ seq.U2 = 2 * n1 * n2 - seq.U1
              /\ seq.U \in {seq.U1, seq.U2}
              /\ seq.U <= seq.U1
              /\ seq.U <= seq.U2

\* U has been computed from a block of equal values that spans both groups,
\* which the sort left with an item of group B before an item of group A
C19_Witness ==
    /\ pc = "mw_pvalue"
    /\ \E k \in 1..(Len(seq.combined) - 1) :
          /\ seq.combined[k].value = seq.combined[k + 1].value
          /\ seq.combined[k].group = 1
          /\ seq.combined[k + 1].group = 0
          /\ seq.ranks[k] = 2 * k + 1
    /\ seq.U1 # seq.U2

\* C20: MannWhitneyU returns 1.0 whenever a group is empty and whenever the
\* standard deviation of U is 0; it divides by the standard deviation only when
\* that is not 0, and it always returns a p-value, never an error or a panic.
C20_OneWhenDegenerate ==
    (config.op = "MannWhitneyU" /\ pc = "returned") =>
        /\ result.status = "ok"
        /\ result.pValue.var12 # 0
        /\ (Len(config.groupA) = 0 \/ Len(config.groupB) = 0
                \/ Var12(Len(config.groupA), Len(config.groupB)) = 0) =>
              IsOne(result.pValue)

\* 1.0 has been returned for an empty group A and a group B that is not empty
C20_Witness ==
    /\ config.op = "MannWhitneyU"
    /\ pc = "returned"
    /\ config.groupA = <<>>
    /\ Len(config.groupB) = 2
    /\ result.status = "ok"
    /\ IsOne(result.pValue)

(***************************************************************************)
(* Package statistics: Median, Mean, StdDev, CV, Calculate, HasOverlap and *)
(* Compare. The float64 values are integers here, and what the code        *)
(* divides is kept as the fraction num / den (a median is kept doubled, a  *)
(* standard deviation squared); NaN and the infinities are not among the   *)
(* values.                                                                 *)
(***************************************************************************)
\* largest length of the first value list
MaxStatLen == 2
\* largest length of the second value list
MaxStatLenB == 1
\* the values are drawn from -1..MaxStatValue
MaxStatValue == 1

StatValues == (0 - 1)..MaxStatValue
StatLists(n) == UNION {[1..m -> StatValues] : m \in 0..n}

Fraction(num, den) == [num |-> num, den |-> den]
\* the float64 0
ZeroFraction == Fraction(0, 1)
FractionIsZero(f) == f.num = 0 /\ f.den # 0
\* the fraction is the integer x
FractionIs(f, x) == f.den # 0 /\ f.num = x * f.den

\* sort.Float64s on a slice
SortFloat64s(values) == SortSeq(values, LAMBDA a, b : a < b)

\* a faulty variant: the upper of the two central values, without the average;
\* doubled
Median2Upper(values) ==
    IF Len(values) = 0
    THEN 0
    ELSE 2 * SortSeq(values, LAMBDA a, b : a < b)[Len(values) \div 2 + 1]

\* Median, doubled: (sorted[n/2-1] + sorted[n/2]) / 2.0 for an even n,
\* sorted[n/2] for an odd one (zero-based), 0 for no value
Median2(values) ==
    IF Len(values) = 0
    THEN 0
    ELSE LET sorted == SortFloat64s(values)
             n == Len(sorted)
         IN  IF n % 2 = 0
             THEN sorted[n \div 2] + sorted[n \div 2 + 1]
             ELSE 2 * sorted[n \div 2 + 1]

\* Mean: sum / float64(len(values)), 0 for no value
Mean(values) ==
    IF Len(values) = 0
    THEN ZeroFraction
    ELSE Fraction(SumSeq(values), Len(values))

\* the sum of the squares
SumSquares(values) == SumSeq([i \in 1..Len(values) |-> values[i] * values[i]])

\* a faulty variant: no early return for fewer than two values
StdDevSquaredUnguarded(values) ==
    Fraction(Len(values) * SumSeq([i \in 1..Len(values) |-> values[i] * values[i]])
                 - SumSeq(values) * SumSeq(values),
             Len(values) * (Len(values) - 1))

\* StdDev, squared: the sum of (v - mean)^2 over n - 1, which is
\* (n * sum of squares - sum^2) / (n * (n - 1)); 0 for fewer than two values
StdDevSquared(values) ==
    IF Len(values) < 2
    THEN ZeroFraction
    ELSE LET n == Len(values)
         IN  Fraction(n * SumSquares(values) - SumSeq(values) * SumSeq(values),
                      n * (n - 1))

\* CV, squared: (StdDev / |mean|)^2 * 100^2, 0 for a mean of 0
CVSquared(values) ==
    IF Mean(values).num = 0
    THEN ZeroFraction
    ELSE LET sd == StdDevSquared(values)
             mean == Mean(values)
         IN  Fraction(sd.num * (mean.den * mean.den) * 10000,
                      sd.den * (mean.num * mean.num))

\* sorted := make(...); copy(sorted, values); sort.Float64s(sorted): what the
\* argument slice and the local slice hold afterwards
SortedCopy(values) == [arg |-> values, sorted |-> SortFloat64s(values)]

\* a faulty variant: Stats.Values is the caller's slice itself
ValuesRefAlias(arg, copy) == arg

\* Values: valuesCopy
ValuesRef(arg, copy) == copy

\* Stats{}
EmptyStats == [Median2 |-> 0, Mean |-> ZeroFraction, StdDevSq |-> ZeroFraction,
               Min |-> 0, Max |-> 0, CVSq |-> ZeroFraction, Values |-> "nil"]

\* Calculate on the slice whose elements are values; arg and copy name the
\* caller's slice and the slice valuesCopy
CalculateStats(values, arg, copy) ==
    IF Len(values) = 0
    THEN EmptyStats
    ELSE LET sorted == SortedCopy(values).sorted
         IN  [Median2 |-> Median2(values),
              Mean |-> Mean(values),
              StdDevSq |-> StdDevSquared(values),
              Min |-> sorted[1],
              Max |-> sorted[Len(sorted)],
              CVSq |-> CVSquared(values),
              Values |-> ValuesRef(arg, copy)]

\* a faulty variant: ranges that only touch do not overlap
HasOverlapStrict(statsA, statsB) ==
    ~(statsA.Min >= statsB.Max \/ statsB.Min >= statsA.Max)

\* HasOverlap: !(statsA.Min > statsB.Max || statsB.Min > statsA.Max)
HasOverlap(statsA, statsB) ==
    ~(statsA.Min > statsB.Max \/ statsB.Min > statsA.Max)

\* a faulty variant: the quotient is computed whatever the baseline median
MedianDiffUnguarded(statsA, statsB) ==
    Fraction((statsB.Median2 - statsA.Median2) * 100, statsA.Median2)

\* medianDiff: ((statsB.Median - statsA.Median) / statsA.Median) * 100 if
\* statsA.Median != 0, else 0.0
MedianDiffPct(statsA, statsB) ==
    IF statsA.Median2 # 0
    THEN Fraction((statsB.Median2 - statsA.Median2) * 100, statsA.Median2)
    ELSE ZeroFraction

\* pValue < 0.05 for pValue = 2 * normalCDF(-|z|): |z| > 1.95996..., that is
\* z^2 = 3 * zNum^2 / var12 > 3.84145...; a pValue from a division by zero
\* is NaN, and NaN < 0.05 is false
IsSignificant(p) ==
    p.var12 # 0 /\ 3000 * (p.zNum * p.zNum) > 3841 * p.var12

\* MannWhitneyU on two groups, for the ascending arrangement s the sort left
MannWhitneyPValue(groupA, groupB, s) ==
    IF EitherEmpty(groupA, groupB)
    THEN NoDifference
    ELSE LET n1 == Len(groupA)
             n2 == Len(groupB)
             u1 == U1Doubled(RankSumA2(s, AssignRanks(s)), n1)
             u2 == U2Doubled(u1, n1, n2)
         IN  PValueOf(Min(u1, u2), n1, n2)

\* Compare, for the values the two Stats.Values hold and the arrangement s
Comparison(statsA, statsB, groupA, groupB, s) ==
    LET pValue == MannWhitneyPValue(groupA, groupB, s)
    IN  [MedianDiffPct |-> MedianDiffPct(statsA, statsB),
         PValue |-> pValue,
         HasOverlap |-> HasOverlap(statsA, statsB),
         Significant |-> IsSignificant(pValue)]

\* the scenario of the specification: a baseline around 100 and a candidate
\* around 150
ScenarioBaseline == <<100, 102, 98, 101, 99>>
ScenarioCandidate == <<150, 148, 152, 149, 151>>

StatNoStats == [EmptyStats EXCEPT !.Values = "none"]
StatLocals(valuesA, valuesB) ==
    [a |-> valuesA, b |-> valuesB, copyA |-> <<>>, copyB |-> <<>>,
     statsA |-> StatNoStats, statsB |-> StatNoStats]
StatNoResult ==
    [status |-> "none", self |-> FALSE, groupA |-> <<>>, groupB |-> <<>>,
     MedianDiffPct |-> ZeroFraction, PValue |-> NoDifference,
     HasOverlap |-> FALSE, Significant |-> FALSE]

\* the caller holds two slices of observations
StatisticsInit ==
    /\ config \in ([op : {"Compare"}, valuesA : StatLists(MaxStatLen),
                    valuesB : StatLists(MaxStatLenB)]
                   \cup {[op |-> "Compare", valuesA |-> ScenarioBaseline,
                          valuesB |-> ScenarioCandidate]})
    /\ pc = "calculate_a"
    /\ dist = NoWorkers
    /\ pending = <<>>
    /\ workers = <<>>
    /\ wg = 0
    /\ mu = 0
    /\ allLatencies = EmptyLatencies
    /\ totalSuccess = 0
    /\ totalErrors = 0
    /\ seq = StatLocals(config.valuesA, config.valuesB)
    /\ result = StatNoResult
    /\ db = 0

\* the elements of the slice a Stats.Values refers to
Deref(ref) ==
    CASE ref = "a" -> seq.a
      [] ref = "b" -> seq.b
      [] ref = "copyA" -> seq.copyA
      [] ref = "copyB" -> seq.copyB
      [] OTHER -> <<>>

\* statsA := Calculate(a): the sorted copy is made first, then valuesCopy
CalculateA ==
    /\ pc = "calculate_a"
    /\ seq' = [seq EXCEPT
                 !.a = IF Len(@) = 0 THEN @ ELSE SortedCopy(@).arg,
                 !.copyA = IF Len(seq.a) = 0 THEN @ ELSE SortedCopy(seq.a).arg,
                 !.statsA = CalculateStats(seq.a, "a", "copyA")]
    /\ pc' = "calculate_b"
    /\ UNCHANGED <<config, dist, pending, workers, wg, mu, allLatencies,
                   totalSuccess, totalErrors, result, db>>

\* statsB := Calculate(b)
CalculateB ==
    /\ pc = "calculate_b"
    /\ seq' = [seq EXCEPT
                 !.b = IF Len(@) = 0 THEN @ ELSE SortedCopy(@).arg,
                 !.copyB = IF Len(seq.b) = 0 THEN @ ELSE SortedCopy(seq.b).arg,
                 !.statsB = CalculateStats(seq.b, "b", "copyB")]
    /\ pc' = "calculated"
    /\ UNCHANGED <<config, dist, pending, workers, wg, mu, allLatencies,
                   totalSuccess, totalErrors, result, db>>

\* the caller writes to its own slice after the summary is taken
CallerWrites ==
    /\ pc = "calculated"
    /\ \E i \in 1..Len(seq.a) : seq' = [seq EXCEPT !.a[i] = @ + 1]
    /\ pc' = "written"
    /\ UNCHANGED <<config, dist, pending, workers, wg, mu, allLatencies,
                   totalSuccess, totalErrors, result, db>>

\* Compare(statsA, statsB): the test runs on the two Stats.Values
CompareStats(statsA, statsB, self) ==
    /\ pc \in {"calculated", "written"}
    /\ LET groupA == Deref(statsA.Values)
           groupB == Deref(statsB.Values)
       IN  \E s \in SortedArrangements(Combined(groupA, groupB)) :
               LET c == Comparison(statsA, statsB, groupA, groupB, s)
               IN  result' = [status |-> "ok", self |-> self,
                              groupA |-> groupA, groupB |-> groupB,
                              MedianDiffPct |-> c.MedianDiffPct,
                              PValue |-> c.PValue,
                              HasOverlap |-> c.HasOverlap,
                              Significant |-> c.Significant]
    /\ pc' = "returned"
    /\ UNCHANGED <<config, dist, pending, workers, wg, mu, allLatencies,
                   totalSuccess, totalErrors, seq, db>>

\* a candidate against a baseline
CompareTwo == CompareStats(seq.statsA, seq.statsB, FALSE)

\* a summary against itself
CompareSelf == CompareStats(seq.statsA, seq.statsA, TRUE)

StatisticsNext ==
    CalculateA \/ CalculateB \/ CallerWrites \/ CompareTwo \/ CompareSelf

StatisticsSpec == StatisticsInit /\ [][StatisticsNext]_vars

\* v stands at the zero-based index k of the ascending order of s
AtSortedIndex(s, k, v) == CountLess(s, v) <= k /\ k < CountLessEq(s, v)

\* m2 is twice the middle value of s, or the sum of its two central values
IsMedian2(s, m2) ==
    LET n == Len(s)
        elems == {s[i] : i \in 1..n}
    IN  IF n = 0
        THEN m2 = 0
        ELSE IF n % 2 = 1
             THEN \E v \in elems : AtSortedIndex(s, (n - 1) \div 2, v) /\ m2 = 2 * v
             ELSE \E v \in elems, w \in elems :
                      /\ AtSortedIndex(s, n \div 2 - 1, v)
                      /\ AtSortedIndex(s, n \div 2, w)
                      /\ m2 = v + w

\* C23: once Calculate has run, the median is the middle value of the sorted
\* input for an odd length, the average of the two central values for an even
\* one and 0 for no value, and every rearrangement of the input has the same
\* median.
C23_MedianIsMiddle ==
    pc # "calculate_a" =>
        /\ IsMedian2(config.valuesA, seq.statsA.Median2)
        /\ \A r \in Rearrangements(config.valuesA) :
               Median2(r) = seq.statsA.Median2

C23_Witness ==
    /\ pc = "calculate_b"
    /\ Len(config.valuesA) = 2
    /\ config.valuesA[1] > config.valuesA[2]
    /\ seq.statsA.Median2 % 2 = 1

\* C24: for a single value x, zero and negative values included, Calculate
\* returns Median = x, Mean = x, StdDev = 0, Min = x, Max = x, CV = 0 and
\* Values = [x].
C24_SingleValue ==
    (pc # "calculate_a" /\ Len(config.valuesA) = 1) =>
        LET x == config.valuesA[1]
            S == seq.statsA
        IN  /\ S.Median2 = 2 * x
            /\ FractionIs(S.Mean, x)
            /\ FractionIsZero(S.StdDevSq)
            /\ S.Min = x
            /\ S.Max = x
            /\ FractionIsZero(S.CVSq)
            /\ Deref(S.Values) = <<x>>

C24_Witness ==
    /\ pc = "calculate_b"
    /\ config.valuesA = <<0 - 1>>
    /\ seq.statsA.Min = 0 - 1
    /\ seq.statsA.Values = "copyA"

\* C25: Calculate leaves the caller's slice as it was, Stats.Values holds the
\* input in its original order whatever the caller writes to its slice
\* afterwards, and Compare runs the test on those observations.
C25_IndependentCopy ==
    /\ pc \in {"calculate_b", "calculated"} => seq.a = config.valuesA
    /\ pc = "calculated" => seq.b = config.valuesB
    /\ pc # "calculate_a" => Deref(seq.statsA.Values) = config.valuesA
    /\ pc \notin {"calculate_a", "calculate_b"} =>
           Deref(seq.statsB.Values) = config.valuesB
    /\ pc = "returned" =>
           /\ result.groupA = config.valuesA
           /\ result.groupB = (IF result.self THEN config.valuesA
                               ELSE config.valuesB)

C25_Witness ==
    /\ pc = "returned"
    /\ Len(config.valuesA) >= 2
    /\ config.valuesA[1] > config.valuesA[2]
    /\ seq.a # config.valuesA
    /\ result.groupA = config.valuesA
    /\ seq.statsA.Values = "copyA"

\* C21: a summary compared with itself, the summary of no value or of one value
\* included, gives a median difference of 0, overlapping ranges, a p-value of
\* 1.0 and no significance.
C21_SelfComparison ==
    (pc = "returned" /\ result.self) =>
        /\ FractionIsZero(result.MedianDiffPct)
        /\ result.HasOverlap
        /\ ~result.Significant
        /\ IsOne(result.PValue)

C21_Witness ==
    /\ pc = "returned"
    /\ result.self
    /\ Len(config.valuesA) >= 2
    /\ seq.statsA.Min < seq.statsA.Max
    /\ seq.statsA.Median2 # 0
    /\ IsOne(result.PValue)

\* C22: the median difference is (median B - median A) / median A * 100 for a
\* baseline median other than 0 and exactly 0 for a baseline median of 0, never
\* the result of a division by zero; Significant is true exactly for a p-value
\* below 0.05; the baseline around 100 against the candidate around 150 gives
\* 50 percent, no overlap and a significant difference.
C22_MedianDifference ==
    (pc = "returned" /\ ~result.self) =>
        LET mA == Median2(config.valuesA)
            mB == Median2(config.valuesB)
            d == result.MedianDiffPct
            p == result.PValue
        IN  /\ d.den # 0
            /\ mA # 0 => d.num * mA = 100 * (mB - mA) * d.den
            /\ mA = 0 => d.num = 0
            /\ result.Significant <=>
                   (p.var12 # 0 /\ 3000 * p.zNum * p.zNum > 3841 * p.var12)
            /\ IsOne(p) => ~result.Significant
            /\ (config.valuesA = ScenarioBaseline
                    /\ config.valuesB = ScenarioCandidate) =>
                   /\ FractionIs(d, 50)
                   /\ ~result.HasOverlap
                   /\ result.Significant

C22_Witness ==
    /\ pc = "returned"
    /\ ~result.self
    /\ seq.statsA.Median2 = 0
    /\ seq.statsB.Median2 # 0
    /\ Len(config.valuesA) >= 1
    /\ FractionIsZero(result.MedianDiffPct)

(***************************************************************************)
(* The command-line runner: main dispatches on -scenario, and the          *)
(* run...ForAllTypes function of the scenario starts a container, runs the *)
(* scenario and stops the container for each key type in turn.             *)
(***************************************************************************)
allKeyTypes == <<"bigserial", "uuidv4", "uuidv7", "ulid", "uuidv1">>

\* the cases of the switch in main
DispatchCases ==
    {"insert-performance", "read-after-fragmentation", "update-performance",
     "mixed-insert-heavy", "mixed-read-heavy", "mixed-balanced"}

\* the values of -scenario the README documents
DocumentedScenarios == DispatchCases \cup {"all"}

\* the values of -scenario that are tried
ScenarioFlags == DocumentedScenarios \cup {"insert", ""}

RunnerNoResult == [status |-> "none", message |-> ""]
\* log.Fatalf
Fatal(message) == [status |-> "fatal", message |-> message]

\* the containers of the compose project, and what was done for which key type
NoContainer == [up |-> 0, starts |-> <<>>, runs |-> <<>>, stops |-> <<>>]

RunnerInit ==
    /\ config \in [op : {"main"}, scenario : ScenarioFlags]
    /\ pc = "dispatch"
    /\ dist = NoWorkers
    /\ pending = <<>>
    /\ workers = <<>>
    /\ wg = 0
    /\ mu = 0
    /\ allLatencies = EmptyLatencies
    /\ totalSuccess = 0
    /\ totalErrors = 0
    /\ seq = [i |-> 0, keyType |-> "none"]
    /\ result = RunnerNoResult
    /\ db = NoContainer

\* switch *scenario
Dispatch ==
    /\ pc = "dispatch"
    /\ IF config.scenario \in DispatchCases
       THEN /\ pc' = "loop"
            /\ result' = result
       ELSE /\ pc' = "exited"
            /\ result' = Fatal("Invalid scenario")
    /\ UNCHANGED <<config, dist, pending, workers, wg, mu, allLatencies,
                   totalSuccess, totalErrors, seq, db>>

\* for _, keyType := range allKeyTypes, and what follows the loop
NextKeyType ==
    /\ pc = "loop"
    /\ IF seq.i < Len(allKeyTypes)
       THEN /\ seq' = [i |-> seq.i + 1, keyType |-> allKeyTypes[seq.i + 1]]
            /\ pc' = "start"
            /\ result' = result
       ELSE /\ seq' = seq
            /\ pc' = "exited"
            /\ result' = [status |-> "ok",
                          message |-> "All scenarios completed successfully!"]
    /\ UNCHANGED <<config, dist, pending, workers, wg, mu, allLatencies,
                   totalSuccess, totalErrors, db>>

\* docker compose up -d: the project has one container afterwards
ComposeUp(up) == 1

\* a faulty variant: the container is left as it is
ComposeDownSkipped(up) == up

\* docker compose down -v: the project has no container afterwards
ComposeDown(up) == 0

\* container.Start: the compose command may fail, and so may the wait for the
\* database
Start(outcome) ==
    /\ pc = "start"
    /\ CASE outcome = "ok" ->
              /\ db' = [db EXCEPT !.up = ComposeUp(@),
                                  !.starts = Append(@, [keyType |-> seq.keyType,
                                                       fresh |-> db.up = 0])]
              /\ pc' = "scenario"
              /\ result' = result
         [] outcome = "up-failed" ->
              /\ db' = db
              /\ pc' = "exited"
              /\ result' = Fatal("Failed to start container")
         [] outcome = "not-ready" ->
              /\ db' = [db EXCEPT !.up = ComposeUp(@)]
              /\ pc' = "exited"
              /\ result' = Fatal("failed to start")
    /\ UNCHANGED <<config, dist, pending, workers, wg, mu, allLatencies,
                   totalSuccess, totalErrors, seq>>

\* result, err := runner.<scenario>(keyType, ...)
RunScenario(ok) ==
    /\ pc = "scenario"
    /\ db' = [db EXCEPT !.runs = Append(@, [keyType |-> seq.keyType,
                                           up |-> db.up])]
    /\ pc' = IF ok THEN "stop" ELSE "stop_failed"
    /\ UNCHANGED <<config, dist, pending, workers, wg, mu, allLatencies,
                   totalSuccess, totalErrors, seq, result>>

\* container.Stop, after a scenario that returned and after one that failed
Stop ==
    /\ pc \in {"stop", "stop_failed"}
    /\ db' = [db EXCEPT !.up = ComposeDown(@), !.stops = Append(@, seq.keyType)]
    /\ IF pc = "stop"
       THEN /\ pc' = "loop"
            /\ result' = result
       ELSE /\ pc' = "exited"
            /\ result' = Fatal("Scenario failed")
    /\ UNCHANGED <<config, dist, pending, workers, wg, mu, allLatencies,
                   totalSuccess, totalErrors, seq>>

RunnerNext ==
    \/ Dispatch
    \/ NextKeyType
    \/ \E outcome \in {"ok", "up-failed", "not-ready"} : Start(outcome)
    \/ \E ok \in BOOLEAN : RunScenario(ok)
    \/ Stop

RunnerSpec == RunnerInit /\ [][RunnerNext]_vars

\* the key types of the first n entries of allKeyTypes
FirstKeyTypes(n) == SubSeq(allKeyTypes, 1, n)

C26_State ==
    config.op = "main" =>
        /\ db.up <= 1
        /\ [k \in 1..Len(db.starts) |-> db.starts[k].keyType]
               = FirstKeyTypes(Len(db.starts))
        /\ [k \in 1..Len(db.runs) |-> db.runs[k].keyType]
               = FirstKeyTypes(Len(db.runs))
        /\ db.stops = FirstKeyTypes(Len(db.stops))
        /\ \A k \in 1..Len(db.starts) : db.starts[k].fresh
        /\ \A k \in 1..Len(db.runs) : db.runs[k].up = 1
        /\ Len(db.stops) <= Len(db.runs)
        /\ Len(db.runs) <= Len(db.starts)
        /\ Len(db.starts) <= Len(db.stops) + 1
        /\ pc = "scenario" =>
               /\ db.up = 1
               /\ Len(db.starts) = Len(db.stops) + 1
               /\ Len(db.runs) = Len(db.stops)
        /\ pc \in {"loop", "start"} =>
               /\ db.up = 0
               /\ Len(db.stops) = Len(db.starts)
        /\ (pc = "exited" /\ result.message = "Scenario failed") =>
               /\ db.up = 0
               /\ Len(db.stops) = Len(db.starts)
               /\ Len(db.stops) = Len(db.runs)

C26_Step ==
    /\ db'.runs # db.runs => (db.up = 1 /\ db'.stops = db.stops)
    /\ db'.starts # db.starts => (db.up = 0 /\ Len(db.stops) = Len(db.starts))
    /\ db'.stops # db.stops => (db'.up = 0 /\ Len(db'.stops) = Len(db.runs))

C27_DocumentedAccepted ==
    (pc = "exited" /\ result.message = "Invalid scenario") =>
        config.scenario \notin DocumentedScenarios

(***************************************************************************)
(* The pgbench-based insert, update and mixed paths and the native         *)
(* sequential insert: how many transactions pgbench is asked for, and how  *)
(* many operations reach the database.                                     *)
(***************************************************************************)
\* largest number of requested operations
MaxRunOps == 5
\* largest number of connections
MaxRunConn == 3
\* largest batch size
MaxRunBatch == 2

ConcurrentPgbenchOps ==
    {"InsertRecordsPgbenchConcurrent", "UpdateRecordsPgbenchConcurrent",
     "RunMixedWorkloadPgbench"}
SequentialInsertOps == {"InsertRecords", "InsertRecordsPgbench"}
BatchedOps == SequentialInsertOps \cup {"InsertRecordsPgbenchConcurrent"}

RunConfigs ==
    {c \in [op : ConcurrentPgbenchOps \cup SequentialInsertOps,
            count : 0..MaxRunOps,
            connections : 1..MaxRunConn,
            batchSize : 1..MaxRunBatch] :
        /\ c.op \in SequentialInsertOps => c.connections = 1
        /\ c.op \notin BatchedOps => c.batchSize = 1}

RunLocals == [i |-> 0, statements |-> 0, clients |-> 0, transactions |-> 0,
              processed |-> 0]
RunNoResult == [status |-> "none", TotalOps |-> 0, SuccessCount |-> 0,
                ErrorCount |-> 0]
RunError == [RunNoResult EXCEPT !.status = "error"]

\* the INSERT statements of one transaction of the script:
\* GenerateInsertScript has one, GenerateMultipleInserts has batchSize
ScriptStatements(c) ==
    IF c.op \in BatchedOps /\ c.batchSize > 1 THEN c.batchSize ELSE 1

\* the Connections of the ExecutorConfig
RunClients(c) == IF c.op = "InsertRecordsPgbench" THEN 1 ELSE c.connections

\* the Transactions of the ExecutorConfig
RunTransactions(c) ==
    CASE c.op = "InsertRecordsPgbench" ->
             IF c.batchSize > 1
             THEN c.count \div c.batchSize
                      + (IF c.count % c.batchSize # 0 THEN 1 ELSE 0)
             ELSE c.count
      [] c.op = "InsertRecordsPgbenchConcurrent" ->
             IF c.batchSize > 1
             THEN (c.count \div c.batchSize) \div c.connections
             ELSE c.count \div c.connections
      [] OTHER -> c.count \div c.connections

RunInit ==
    /\ config \in RunConfigs
    /\ pc = IF config.op = "InsertRecords" THEN "native" ELSE "plan"
    /\ dist = NoWorkers
    /\ pending = <<>>
    /\ workers = <<>>
    /\ wg = 0
    /\ mu = 0
    /\ allLatencies = EmptyLatencies
    /\ totalSuccess = 0
    /\ totalErrors = 0
    /\ seq = RunLocals
    /\ result = RunNoResult
    /\ db = [operations |-> 0]

\* the script, the ExecutorConfig and the call of pgbench.Execute, which
\* rejects a request without transactions; ok is false for a failure of the
\* LSN query or of the copy of the script
RunPlan(ok) ==
    /\ pc = "plan"
    /\ IF ~ok
       THEN /\ seq' = seq
            /\ result' = RunError
            /\ pc' = "returned"
       ELSE /\ seq' = [seq EXCEPT !.statements = ScriptStatements(config),
                                  !.clients = RunClients(config),
                                  !.transactions = RunTransactions(config)]
            /\ IF ExecuteRejects(RunTransactions(config))
               THEN /\ result' = RunError
                    /\ pc' = "returned"
               ELSE /\ result' = result
                    /\ pc' = "pgbench"
    /\ UNCHANGED <<config, dist, pending, workers, wg, mu, allLatencies,
                   totalSuccess, totalErrors, db>>

\* pgbench runs one transaction of the script for one of its clients
RunTransaction ==
    /\ pc = "pgbench"
    /\ seq.processed < seq.clients * seq.transactions
    /\ seq' = [seq EXCEPT !.processed = @ + 1]
    /\ db' = [db EXCEPT !.operations = @ + seq.statements]
    /\ UNCHANGED <<config, pc, dist, pending, workers, wg, mu, allLatencies,
                   totalSuccess, totalErrors, result>>

\* every client has run its transactions; ok is false for a non-zero exit
\* code, for output that cannot be parsed (which InsertRecordsPgbench
\* tolerates) or for a failure of the LSN query or the metrics
RunReport(ok) ==
    /\ pc = "pgbench"
    /\ seq.processed = seq.clients * seq.transactions
    /\ result' =
           IF ~ok /\ config.op # "InsertRecordsPgbench"
           THEN RunError
           ELSE IF config.op \in {"InsertRecordsPgbenchConcurrent",
                                  "UpdateRecordsPgbenchConcurrent"}
                THEN [status |-> "ok", TotalOps |-> config.count,
                      SuccessCount |-> seq.processed,
                      ErrorCount |-> config.count - seq.processed]
                ELSE [RunNoResult EXCEPT !.status = "ok",
                                         !.TotalOps = config.count]
    /\ pc' = "returned"
    /\ UNCHANGED <<config, dist, pending, workers, wg, mu, allLatencies,
                   totalSuccess, totalErrors, seq, db>>

\* InsertRecords: one pass of the loop, one row or one batch of
\* min(i+batchSize, numRecords) - i rows
NativeInsert(ok) ==
    /\ pc = "native"
    /\ seq.i < config.count
    /\ IF ok
       THEN /\ db' = [db EXCEPT !.operations =
                         @ + (IF config.batchSize = 1
                              THEN 1
                              ELSE Min(seq.i + config.batchSize, config.count)
                                       - seq.i)]
            /\ seq' = [seq EXCEPT !.i = @ + config.batchSize]
            /\ pc' = pc
            /\ result' = result
       ELSE /\ db' = db
            /\ seq' = seq
            /\ pc' = "returned"
            /\ result' = RunError
    /\ UNCHANGED <<config, dist, pending, workers, wg, mu, allLatencies,
                   totalSuccess, totalErrors>>

\* InsertRecords: the loop has ended
NativeReturn ==
    /\ pc = "native"
    /\ seq.i >= config.count
    /\ result' = [RunNoResult EXCEPT !.status = "ok", !.TotalOps = config.count]
    /\ pc' = "returned"
    /\ UNCHANGED <<config, dist, pending, workers, wg, mu, allLatencies,
                   totalSuccess, totalErrors, seq, db>>

RunNext ==
    \/ \E ok \in BOOLEAN : RunPlan(ok)
    \/ RunTransaction
    \/ \E ok \in BOOLEAN : RunReport(ok)
    \/ \E ok \in BOOLEAN : NativeInsert(ok)
    \/ NativeReturn

PgbenchRunSpec == RunInit /\ [][RunNext]_vars

\* C28: in the three concurrent pgbench paths the work requested from pgbench,
\* connections * transactionsPerClient (times the batch size), equals the
\* requested operation count, and ErrorCount is 0 when pgbench has processed
\* every transaction.
C28_WorkCoversRequest ==
    (config.op \in ConcurrentPgbenchOps /\ seq.clients >= 1) =>
        /\ seq.clients * seq.transactions * seq.statements = config.count
        /\ (pc = "returned" /\ result.status = "ok") => result.ErrorCount = 0

\* C29: the pgbench-based and the native sequential insert both leave exactly
\* numRecords new rows.
C29_SameRowCount ==
    (config.op \in SequentialInsertOps /\ pc = "returned"
        /\ result.status = "ok") =>
        db.operations = config.count

(***************************************************************************)
(* ParsePgbenchOutput. A line of the output is a sequence of tokens: a     *)
(* word or a phrase without digits is one token, and every digit, dot,     *)
(* space and sign is a token of its own, so that a search for "50" is a    *)
(* search for the digit 5 followed by the digit 0.                         *)
(***************************************************************************)
DigitTokens == {"0", "1", "2", "3", "4", "5", "6", "7", "8", "9"}

DigitOf(ch) ==
    CASE ch = "0" -> 0 [] ch = "1" -> 1 [] ch = "2" -> 2 [] ch = "3" -> 3
      [] ch = "4" -> 4 [] ch = "5" -> 5 [] ch = "6" -> 6 [] ch = "7" -> 7
      [] ch = "8" -> 8 [] ch = "9" -> 9

\* strings.Contains(line, sub)
Contains(line, sub) ==
    \E i \in 1..(Len(line) - Len(sub) + 1) :
        SubSeq(line, i, i + Len(sub) - 1) = sub

\* strings.HasPrefix(line, prefix)
HasPrefix(line, prefix) ==
    Len(line) >= Len(prefix) /\ SubSeq(line, 1, Len(prefix)) = prefix

\* the index of the first token tok at or after i, or 0
RECURSIVE IndexFrom(_, _, _)
IndexFrom(line, tok, i) ==
    IF i > Len(line) THEN 0
    ELSE IF line[i] = tok THEN i
    ELSE IndexFrom(line, tok, i + 1)

\* \s*: the index of the first token at or after i that is no space
RECURSIVE SkipSpaces(_, _)
SkipSpaces(line, i) ==
    IF i <= Len(line) /\ line[i] = " " THEN SkipSpaces(line, i + 1) ELSE i

\* the index after the longest run of tokens of the set from i on
RECURSIVE RunEnd(_, _, _)
RunEnd(line, set, i) ==
    IF i <= Len(line) /\ line[i] \in set THEN RunEnd(line, set, i + 1) ELSE i

\* strconv.Atoi on a run of digits
RECURSIVE Atoi(_)
Atoi(digits) ==
    IF Len(digits) = 0 THEN 0
    ELSE 10 * Atoi(SubSeq(digits, 1, Len(digits) - 1))
             + DigitOf(digits[Len(digits)])

\* strconv.ParseFloat on digits with at most one dot and at most three
\* digits after it, in thousandths; an error for anything else
ParseFloat(text) ==
    LET dot == IndexFrom(text, ".", 1)
        whole == IF dot = 0 THEN text ELSE SubSeq(text, 1, dot - 1)
        frac == IF dot = 0 THEN <<>> ELSE SubSeq(text, dot + 1, Len(text))
    IN  IF \/ Len(text) = 0
           \/ Len(frac) > 3
           \/ \E k \in 1..Len(frac) : frac[k] \notin DigitTokens
           \/ Len(whole) + Len(frac) = 0
        THEN [ok |-> FALSE, thousandths |-> 0]
        ELSE [ok |-> TRUE,
              thousandths |->
                  Atoi(whole) * 1000
                      + Atoi(frac \o [k \in 1..(3 - Len(frac)) |-> "0"])]

\* parseLatency: =\s*([0-9.]+)\s*(ms|us), in nanoseconds
parseLatency(line) ==
    LET eq == IndexFrom(line, "=", 1)
        from == SkipSpaces(line, eq + 1)
        to == RunEnd(line, DigitTokens \cup {"."}, from)
        unit == SkipSpaces(line, to)
        val == ParseFloat(SubSeq(line, from, to - 1))
    IN  IF eq = 0 \/ to = from \/ unit > Len(line)
           \/ line[unit] \notin {"ms", "us"} \/ ~val.ok
        THEN [ok |-> FALSE, ns |-> 0]
        ELSE [ok |-> TRUE,
              ns |-> IF line[unit] = "ms" THEN val.thousandths * 1000
                     ELSE val.thousandths]

\* tps\s*=\s*([0-9.]+), in thousandths
ParseTPS(line) ==
    LET eq == SkipSpaces(line, 2)
        from == SkipSpaces(line, eq + 1)
        to == RunEnd(line, DigitTokens \cup {"."}, from)
    IN  IF eq > Len(line) \/ line[eq] # "=" \/ to = from
        THEN [ok |-> FALSE, thousandths |-> 0]
        ELSE ParseFloat(SubSeq(line, from, to - 1))

\* (\d+)/\d+: the digits before the first slash that has digits on both sides
ParseProcessed(line) ==
    LET slashes == {i \in 2..(Len(line) - 1) :
                        /\ line[i] = "/"
                        /\ line[i - 1] \in DigitTokens
                        /\ line[i + 1] \in DigitTokens}
    IN  IF slashes = {}
        THEN [ok |-> FALSE, n |-> 0]
        ELSE LET s == CHOOSE i \in slashes : \A j \in slashes : i <= j
                 first == CHOOSE i \in 1..s :
                              /\ \A k \in i..(s - 1) : line[k] \in DigitTokens
                              /\ (i = 1 \/ line[i - 1] \notin DigitTokens)
             IN  [ok |-> TRUE, n |-> Atoi(SubSeq(line, first, s - 1))]

\* the latency texts on the percentile lines
LatencyTexts ==
    {<<"1", ".", "1", "0", "0">>, <<"1", ".", "5", "0", "0">>,
     <<"0", ".", "9", "5", "0">>, <<"3", ".", "9", "9", "2">>}
LatencyUnits == {"ms", "us"}

\* "percentile 95 = 1.500 ms"
PercentileLine(label, text, unit) ==
    <<"percentile", " ">> \o label \o <<" ", "=", " ">> \o text \o <<" ", unit>>

\* "number of transactions actually processed: 100/100"
ProcessedLine(digits) ==
    <<"number of transactions actually processed", ":", " ">> \o digits
        \o <<"/", "1", "0", "0">>

\* "tps = 80.125 (without initial connection time)"
TPSLine(text) ==
    <<"tps", " ", "=", " ">> \o text
        \o <<" ", "(", "without", " ", "initial connection time", ")">>

\* "latency average = 1.234 ms"
LatencyAverageLine == <<"latency average", " ", "=", " ", "1", ".", "2", "3", "4", " ", "ms">>

PercentileLabels == <<<<"5", "0">>, <<"9", "5">>, <<"9", "9">>>>
NoLine == <<>>

\* what the output may hold: each line is there or not
OutputParts ==
    [processed : {NoLine, <<"0">>, <<"1", "0", "0">>},
     tps : {NoLine, <<"0", ".", "0", "0", "0">>, <<"8", "0", ".", "1", "2", "5">>},
     p50 : {NoLine} \cup LatencyTexts,
     p95 : {NoLine} \cup LatencyTexts,
     p99 : {NoLine} \cup LatencyTexts,
     unit : LatencyUnits]

Optional(present, line) == IF present THEN <<line>> ELSE <<>>

\* strings.Split(output, "\n"), each line trimmed
OutputLines(c) ==
    Optional(c.processed # NoLine, ProcessedLine(c.processed))
        \o <<LatencyAverageLine>>
        \o Optional(c.tps # NoLine, TPSLine(c.tps))
        \o Optional(c.p50 # NoLine, PercentileLine(PercentileLabels[1], c.p50, c.unit))
        \o Optional(c.p95 # NoLine, PercentileLine(PercentileLabels[2], c.p95, c.unit))
        \o Optional(c.p99 # NoLine, PercentileLine(PercentileLabels[3], c.p99, c.unit))

\* result := &PgbenchResult{}
EmptyPgbenchResult ==
    [TPS |-> 0, LatencyAvg |-> 0, P50 |-> 0, P95 |-> 0, P99 |-> 0,
     Transactions |-> 0]
ParseNoResult == [status |-> "none", value |-> EmptyPgbenchResult]

ParseInit ==
    /\ config \in [op : {"ParsePgbenchOutput"}, output : OutputParts]
    /\ pc = "parse_lines"
    /\ dist = NoWorkers
    /\ pending = <<>>
    /\ workers = <<>>
    /\ wg = 0
    /\ mu = 0
    /\ allLatencies = EmptyLatencies
    /\ totalSuccess = 0
    /\ totalErrors = 0
    /\ seq = [i |-> 0, lines |-> OutputLines(config.output),
              result |-> EmptyPgbenchResult]
    /\ result = ParseNoResult
    /\ db = 0

\* the fields of result after the tests of one pass of the loop over the lines
AfterLine(r, line) ==
    LET processed == ParseProcessed(line)
        latency == parseLatency(line)
        tps == ParseTPS(line)
        r1 == IF Contains(line, <<"number of transactions actually processed">>)
                  /\ processed.ok
              THEN [r EXCEPT !.Transactions = processed.n] ELSE r
        r2 == IF HasPrefix(line, <<"latency average">>) /\ latency.ok
              THEN [r1 EXCEPT !.LatencyAvg = latency.ns] ELSE r1
        r3 == IF HasPrefix(line, <<"tps">>) /\ Contains(line, <<"without">>)
                  /\ tps.ok
              THEN [r2 EXCEPT !.TPS = tps.thousandths] ELSE r2
    IN  IF Contains(line, <<"percentile">>)
        THEN IF Contains(line, <<"5", "0">>)
             THEN IF latency.ok THEN [r3 EXCEPT !.P50 = latency.ns] ELSE r3
             ELSE IF Contains(line, <<"9", "5">>)
                  THEN IF latency.ok THEN [r3 EXCEPT !.P95 = latency.ns] ELSE r3
                  ELSE IF Contains(line, <<"9", "9">>) /\ latency.ok
                       THEN [r3 EXCEPT !.P99 = latency.ns]
                       ELSE r3
        ELSE r3

\* for _, line := range lines
ParseLine ==
    /\ pc = "parse_lines"
    /\ seq.i < Len(seq.lines)
    /\ seq' = [seq EXCEPT !.i = @ + 1,
                          !.result = AfterLine(@, seq.lines[seq.i + 1])]
    /\ UNCHANGED <<config, pc, dist, pending, workers, wg, mu, allLatencies,
                   totalSuccess, totalErrors, result, db>>

\* the validation and the return
ParseValidate ==
    /\ pc = "parse_lines"
    /\ seq.i = Len(seq.lines)
    /\ result' = IF seq.result.TPS = 0 \/ seq.result.Transactions = 0
                 THEN [status |-> "error", value |-> EmptyPgbenchResult]
                 ELSE [status |-> "ok", value |-> seq.result]
    /\ pc' = "returned"
    /\ UNCHANGED <<config, dist, pending, workers, wg, mu, allLatencies,
                   totalSuccess, totalErrors, seq, db>>

ParseNext == ParseLine \/ ParseValidate

ParseSpec == ParseInit /\ [][ParseNext]_vars

\* the nanoseconds of the latency text of a line that is there, 0 for no line
LabelledLatency(text, unit) ==
    IF text = NoLine THEN 0
    ELSE parseLatency(<<"=">> \o text \o <<unit>>).ns

\* C30: P50, P95 and P99 are the latencies of the lines labelled percentile
\* 50, 95 and 99, whatever digits the latency has, and a field without its
\* line stays 0; an error and no result are returned exactly if no non-zero
\* tps or no non-zero count of processed transactions was parsed.
C30_PercentileByLabel ==
    (config.op = "ParsePgbenchOutput" /\ pc = "returned") =>
        LET o == config.output
        IN  /\ result.status = "error" <=>
                   (o.tps \in {NoLine, <<"0", ".", "0", "0", "0">>}
                        \/ o.processed \in {NoLine, <<"0">>})
            /\ result.status = "ok" =>
                   /\ result.value.P50 = LabelledLatency(o.p50, o.unit)
                   /\ result.value.P95 = LabelledLatency(o.p95, o.unit)
                   /\ result.value.P99 = LabelledLatency(o.p99, o.unit)

====
